---- MODULE Spec2Model ----
(***************************************************************************)
(* Satellite communication service of SolarSurfer2                         *)
(* (services/sats_comm/main.py with services/libs/messages.py).            *)
(*                                                                         *)
(* Two asyncio tasks share the list unsent_data and the RockBlock modem:   *)
(* main_data_out_loop gathers telemetry, appends it and drains the list;   *)
(* main_data_in_loop polls the modem and dispatches the command it got,    *)
(* which appends an acknowledgment and drains the list.  The only await of *)
(* either task is the asyncio.sleep of its finally clause, so an iteration *)
(* runs from its start to its rest without the other task running.         *)
(*                                                                         *)
(* Byte strings and texts are sequences of one-character strings.          *)
(* Variables marked "history" are not program state: they record what the  *)
(* program did so that the properties can be stated.                       *)
(*                                                                         *)
(* Three more machines share the module, each with a specification of its  *)
(* own: the self-test of messages.py (CodecSpec), the supervisor that      *)
(* checks the services' heartbeats (services/supervisor/main.py,           *)
(* SupervisorSpec) and the functions of the data logger with their tests   *)
(* (services/data_logger/main.py and test.py, LoggerSpec).                 *)
(***************************************************************************)
EXTENDS Naturals, Integers, Sequences, FiniteSets, TLC

\* ------------------------------------------------------------------------
\* Bounds of the model
\* ------------------------------------------------------------------------

\* longest unsent_data the model lets grow (the list is unbounded in the code)
MaxQueue == 2

\* how many of the first envelopes of a run get an identity of their own
\* (history)
MaxTracked == 2

\* messages the gateway delivers in a run of the full command set
MaxInbound == 1

\* how far beyond the range of a field the values of the codec's inputs go
MaxOver == 1

\* cycles of the supervisor's loop that are followed
MaxCycles == 3

\* ------------------------------------------------------------------------
\* Program constants
\* ------------------------------------------------------------------------

\* main.py:77, max_retries of send_data_through_rockblock
max_retries == 10

\* main.py:105, max_retries of get_data_through_rockblock
max_retries_in == 10

\* main.py:84 and main.py:112, "if mo_status <= 5"
SUCCESS_THRESHOLD == 5

\* main.py:66
REST_TIME_DATA_OUT_DEFAULT == 120

\* main.py:67
REST_TIME_DATA_IN_DEFAULT == 10

\* main.py:180-197, length of the param_id list of set_param
PARAM_ID_LEN == 16

\* mo_status values the modem reports: both sides of the threshold
Statuses == {0, 5, 6, 32}

\* status_pkg[5], the number of MT messages still queued at the gateway
Remaining == {0, 1}

\* data["base_mode"]["bits"] of the autopilot HEARTBEAT
ModeBits == {81, 209}

\* ------------------------------------------------------------------------
\* Texts
\* ------------------------------------------------------------------------

\* Python None (no text is a sequence holding this element)
None == <<"<None>">>

\* "waypoint"
P_waypoint == <<"w", "a", "y", "p", "o", "i", "n", "t">>
\* "output_rest_time"
P_output_rest_time == <<"o", "u", "t", "p", "u", "t", "_", "r", "e", "s", "t", "_", "t", "i", "m", "e">>
\* "input_rest_time"
P_input_rest_time == <<"i", "n", "p", "u", "t", "_", "r", "e", "s", "t", "_", "t", "i", "m", "e">>
\* "set_mode"
P_set_mode == <<"s", "e", "t", "_", "m", "o", "d", "e">>
\* "get_mode"
P_get_mode == <<"g", "e", "t", "_", "m", "o", "d", "e">>
\* "arm"
P_arm == <<"a", "r", "m">>
\* "disarm"
P_disarm == <<"d", "i", "s", "a", "r", "m">>
\* "set_param"
P_set_param == <<"s", "e", "t", "_", "p", "a", "r", "a", "m">>
\* "manual"
S_manual == <<"m", "a", "n", "u", "a", "l">>
\* "auto"
S_auto == <<"a", "u", "t", "o">>
\* "smart_rtl"
S_smart_rtl == <<"s", "m", "a", "r", "t", "_", "r", "t", "l">>
\* "guided"
S_guided == <<"g", "u", "i", "d", "e", "d">>
\* "cmd_ack:"
S_cmd_ack == <<"c", "m", "d", "_", "a", "c", "k", ":">>
\* "text:Autopilot mode: "
S_mode_report == <<"t", "e", "x", "t", ":", "A", "u", "t", "o", "p", "i", "l", "o", "t", " ", "m", "o", "d", "e", ":", " ">>
\* "MISSION_PAUSE_S"
S_MISSION_PAUSE_S == <<"M", "I", "S", "S", "I", "O", "N", "_", "P", "A", "U", "S", "E", "_", "S">>

\* Inbound texts the gateway delivers (rb.data_in)
\* "foo:bar"
CMD_foo_bar == <<"f", "o", "o", ":", "b", "a", "r">>
\* "armada"
CMD_armada == <<"a", "r", "m", "a", "d", "a">>
\* "set_mode:auto"
CMD_set_mode_auto == <<"s", "e", "t", "_", "m", "o", "d", "e", ":", "a", "u", "t", "o">>
\* "set_mode:7"
CMD_set_mode_7 == <<"s", "e", "t", "_", "m", "o", "d", "e", ":", "7">>
\* "set_mode"
CMD_set_mode_bare == <<"s", "e", "t", "_", "m", "o", "d", "e">>
\* "get_mode"
CMD_get_mode == <<"g", "e", "t", "_", "m", "o", "d", "e">>
\* "arm"
CMD_arm == <<"a", "r", "m">>
\* "disarm"
CMD_disarm == <<"d", "i", "s", "a", "r", "m">>
\* "output_rest_time:5"
CMD_output_rest_time == <<"o", "u", "t", "p", "u", "t", "_", "r", "e", "s", "t", "_", "t", "i", "m", "e", ":", "5">>
\* "input_rest_time:7"
CMD_input_rest_time == <<"i", "n", "p", "u", "t", "_", "r", "e", "s", "t", "_", "t", "i", "m", "e", ":", "7">>
\* "set_param:A:1"
CMD_set_param == <<"s", "e", "t", "_", "p", "a", "r", "a", "m", ":", "A", ":", "1">>
\* "waypoint:1:2:3:4"
CMD_waypoint == <<"w", "a", "y", "p", "o", "i", "n", "t", ":", "1", ":", "2", ":", "3", ":", "4">>

Commands ==
    { CMD_foo_bar, CMD_armada, CMD_set_mode_auto, CMD_set_mode_7,
      CMD_set_mode_bare, CMD_get_mode, CMD_arm, CMD_disarm,
      CMD_output_rest_time, CMD_input_rest_time, CMD_set_param, CMD_waypoint }

\* the texts of a run in which the gateway never stops delivering
QueueCommands == { CMD_foo_bar }

\* no limit on the number of messages
Unlimited == 0 - 1

\* the value of a one-element set; { e : x \in {v} } has e computed with x
\* standing for the value of v, computed once
Only(S) == CHOOSE v \in S : TRUE

\* str.startswith
StartsWith(s, p) == Len(p) <= Len(s) /\ SubSeq(s, 1, Len(p)) = p

\* position of the first ":" of s, 0 when there is none
RECURSIVE FindColon(_, _)
FindColon(s, i) ==
    IF i > Len(s) THEN 0
    ELSE IF s[i] = ":" THEN i
    ELSE FindColon(s, i + 1)

\* str.split(":"): the list of the tokens between the colons
RECURSIVE Split(_)
Split(s0) ==
    Only({ IF c = 0 THEN <<s>>
           ELSE <<SubSeq(s, 1, c - 1)>> \o Split(SubSeq(s, c + 1, Len(s))) :
           <<s, c>> \in {<<s0, FindColon(s0, 1)>>} })

Digits == <<"0", "1", "2", "3", "4", "5", "6", "7", "8", "9">>

IsDigit(c) == \E d \in 1..10 : Digits[d] = c

DigitVal(c) == (CHOOSE d \in 1..10 : Digits[d] = c) - 1

\* the texts int() accepts among the ones the model feeds it: decimal digits
IsInt(s) == Len(s) > 0 /\ \A i \in 1..Len(s) : IsDigit(s[i])

\* int(s) for a text of decimal digits
RECURSIVE ParseInt(_)
ParseInt(s0) ==
    Only({ IF Len(s) = 0 THEN 0
           ELSE 10 * ParseInt(SubSeq(s, 1, Len(s) - 1)) + DigitVal(s[Len(s)]) :
           s \in {s0} })

\* the texts float() accepts among the ones the model feeds it:
\* decimal digits with at most one "."
IsFloat(s) ==
    /\ \E i \in 1..Len(s) : IsDigit(s[i])
    /\ \A i \in 1..Len(s) : IsDigit(s[i]) \/ s[i] = "."
    /\ Cardinality({i \in 1..Len(s) : s[i] = "."}) <= 1

\* str(n) of a natural number, as an f-string formats it
RECURSIVE IntToStr(_)
IntToStr(n) ==
    IF n < 10 THEN <<Digits[n + 1]>>
    ELSE IntToStr(n \div 10) \o <<Digits[(n % 10) + 1]>>

\* ------------------------------------------------------------------------
\* The message codec (services/libs/messages.py)
\* ------------------------------------------------------------------------

START == "$"

\* MESSAGES['global']: id and the (name, struct format) of its fields, in order
MESSAGES_global_id == 1

\* the fields of MESSAGES['global'] without wind_angle
MESSAGES_global_fields_no_wind_angle ==
    << <<"heading", "B">>, <<"max_abs_roll", "B">>, <<"max_abs_pitch", "B">>,
       <<"battery_voltage", "B">>, <<"battery_current", "B">>,
       <<"solar_voltage", "B">>, <<"solar_power", "B">>,
       <<"throttle_first", "B">>, <<"throttle_second", "B">>,
       <<"air_temperature", "B">>, <<"water_temperature", "B">>,
       <<"cpu", "B">>, <<"memory", "B">>, <<"disk", "B">>,
       <<"raspberry_temp", "B">>, <<"raspberry_volt", "B">>,
       <<"mission_status", "B">>, <<"wind_speed", "B">>,
       <<"gps_fix_type", "B">>, <<"sat_number", "B">>,
       <<"lattitude", "f">>, <<"longitude", "f">>,
       <<"next_waypoint_lattitude", "f">>, <<"next_waypoint_longitude", "f">>,
       <<"vdop", "H">>, <<"hdop", "H">>  >>

MESSAGES_global_fields ==
    << <<"heading", "B">>, <<"max_abs_roll", "B">>, <<"max_abs_pitch", "B">>,
       <<"battery_voltage", "B">>, <<"battery_current", "B">>,
       <<"solar_voltage", "B">>, <<"solar_power", "B">>,
       <<"throttle_first", "B">>, <<"throttle_second", "B">>,
       <<"air_temperature", "B">>, <<"water_temperature", "B">>,
       <<"cpu", "B">>, <<"memory", "B">>, <<"disk", "B">>,
       <<"raspberry_temp", "B">>, <<"raspberry_volt", "B">>,
       <<"mission_status", "B">>, <<"wind_speed", "B">>, <<"wind_angle", "B">>,
       <<"gps_fix_type", "B">>, <<"sat_number", "B">>,
       <<"lattitude", "f">>, <<"longitude", "f">>,
       <<"next_waypoint_lattitude", "f">>, <<"next_waypoint_longitude", "f">>,
       <<"vdop", "H">>, <<"hdop", "H">>  >>

\* a Python value: an int or a float of value n (of the floats the model has
\* the ones of whole value), or a bytes object or a str of characters s
PyInt(n) == [kind |-> "int", n |-> n, s |-> <<>>]

PyFloatOf(n) == [kind |-> "float", n |-> n, s |-> <<>>]

\* a float of the telemetry (the readings themselves are not modelled)
PyFloat == PyFloatOf(0)

PyBytes(s) == [kind |-> "bytes", n |-> 0, s |-> s]

PyStr(s) == [kind |-> "str", n |-> 0, s |-> s]

IsNumber(value) == value.kind \in {"int", "float"}

\* Python's ==: an int and a float of the same value are equal, a bytes
\* object and a str never are
PyEq(a, b) ==
    IF IsNumber(a) /\ IsNumber(b) THEN a.n = b.n
    ELSE a.kind = b.kind /\ a.s = b.s

\* one byte that is not a text character
Byte(n) == "x" \o ToString(n)

\* the number a byte stands for
ByteVal(b) == CHOOSE n \in 0..255 : Byte(n) = b

\* the count of the '40s' format of MESSAGES['message']
TEXT_SIZE == 40

\* n zero bytes
Zeros(n) == [i \in 1..n |-> Byte(0)]

Abs(n) == IF n < 0 THEN 0 - n ELSE n

\* floor of the base-2 logarithm of a positive integer
RECURSIVE Log2(_)
Log2(m) == IF m < 2 THEN 0 ELSE 1 + Log2(m \div 2)

\* IEEE 754 binary32 of a number of whole value n: sign bit, biased exponent
\* and the 23 bits of the fraction; a value of more than 24 significant bits
\* is rounded to the nearest float32, ties to the even one
Float32(n) ==
    IF n = 0 THEN [sign |-> 0, exp |-> 0, frac |-> 0]
    ELSE LET a == Abs(n)
             e == Log2(a)
             sh == e - 23
             q == a \div (2 ^ sh)
             r == a % (2 ^ sh)
             half == 2 ^ (sh - 1)
             m == IF e <= 23 THEN a * (2 ^ (23 - e))
                  ELSE IF r > half \/ (r = half /\ q % 2 = 1) THEN q + 1
                  ELSE q
             carry == m = 2 ^ 24
         IN  [sign |-> IF n < 0 THEN 1 ELSE 0,
              exp |-> (IF carry THEN e + 1 ELSE e) + 127,
              frac |-> IF carry THEN 0 ELSE m - 2 ^ 23]

\* the four bytes of a binary32, little-endian
Float32Bytes(p) ==
    << Byte(p.frac % 256),
       Byte((p.frac \div 256) % 256),
       Byte((p.exp % 2) * 128 + p.frac \div 65536),
       Byte(p.sign * 128 + p.exp \div 2) >>

\* the value of the binary32 in four little-endian bytes (of whole value
\* for the bytes Float32Bytes makes of a whole value)
Float32Value(b) ==
    LET sign == ByteVal(b[4]) \div 128
        exp == (ByteVal(b[4]) % 128) * 2 + ByteVal(b[3]) \div 128
        frac == (ByteVal(b[3]) % 128) * 65536 + ByteVal(b[2]) * 256 + ByteVal(b[1])
        m == 2 ^ 23 + frac
        a == IF exp = 0 THEN 0
             ELSE IF exp >= 150 THEN m * (2 ^ (exp - 150))
             ELSE m \div (2 ^ (150 - exp))
    IN  IF sign = 1 THEN 0 - a ELSE a

\* struct.pack(ENDIAN + field, value) succeeds: the integer formats take an
\* int of their range and nothing else, 'f' takes an int or a float, '40s'
\* takes a bytes object
PackOk(field, value) ==
    CASE field = "B" -> value.kind = "int" /\ value.n >= 0 /\ value.n <= 255
      [] field = "H" -> value.kind = "int" /\ value.n >= 0 /\ value.n <= 65535
      [] field = "f" -> IsNumber(value)
      [] OTHER -> value.kind = "bytes"

\* Pack that does not pad a short bytes object
Pack_unpadded(field, value) ==
    CASE field = "B" -> <<Byte(value.n)>>
      [] field = "H" -> <<Byte(value.n % 256), Byte(value.n \div 256)>>
      [] field = "f" -> Float32Bytes(Float32(value.n))
      [] OTHER -> SubSeq(value.s, 1, IF Len(value.s) < TEXT_SIZE THEN Len(value.s) ELSE TEXT_SIZE)

\* Pack with the two bytes of an 'H' in big-endian order
Pack_big_endian(field, value) ==
    CASE field = "B" -> <<Byte(value.n)>>
      [] field = "H" -> <<Byte(value.n \div 256), Byte(value.n % 256)>>
      [] field = "f" -> Float32Bytes(Float32(value.n))
      [] OTHER -> SubSeq(value.s \o Zeros(TEXT_SIZE), 1, TEXT_SIZE)

\* the bytes of struct.pack(ENDIAN + field, value) when it succeeds
Pack(field, value) ==
    CASE field = "B" -> <<Byte(value.n)>>
      [] field = "H" -> <<Byte(value.n % 256), Byte(value.n \div 256)>>
      [] field = "f" -> Float32Bytes(Float32(value.n))
      [] OTHER -> SubSeq(value.s \o Zeros(TEXT_SIZE), 1, TEXT_SIZE)

\* the value struct.unpack(ENDIAN + field, b) gives for the bytes of one field
Unpack(field, b) ==
    CASE field = "B" -> PyInt(ByteVal(b[1]))
      [] field = "H" -> PyInt(ByteVal(b[1]) + 256 * ByteVal(b[2]))
      [] field = "f" -> PyFloatOf(Float32Value(b))
      [] OTHER -> PyBytes(b)

\* what a call of the codec gives: raised says that it raised, error what,
\* data are the bytes it returned
Raised(error) == [raised |-> TRUE, error |-> error, data |-> <<>>]

Returned(data) == [raised |-> FALSE, error |-> "", data |-> data]

\* SerializeFields that puts each field before the ones packed so far
RECURSIVE SerializeFields_reversed(_, _, _)
SerializeFields_reversed(content, fields, k) ==
    IF k = 0 THEN Returned(<<>>)
    ELSE LET name == fields[k][1]
             field == fields[k][2]
         IN  Only({ IF before.raised THEN before
                    ELSE IF name \notin DOMAIN content THEN Raised("KeyError")
                    ELSE IF ~PackOk(field, content[name]) THEN Raised("struct.error")
                    ELSE Returned(Pack(field, content[name]) \o before.data) :
                    before \in {SerializeFields_reversed(content, fields, k - 1)} })

\* SerializeFields that passes over a field the dict does not have
RECURSIVE SerializeFields_skip_missing(_, _, _)
SerializeFields_skip_missing(content, fields, k) ==
    IF k = 0 THEN Returned(<<>>)
    ELSE LET name == fields[k][1]
             field == fields[k][2]
         IN  Only({ IF before.raised THEN before
                    ELSE IF name \notin DOMAIN content THEN before
                    ELSE IF ~PackOk(field, content[name]) THEN Raised("struct.error")
                    ELSE Returned(before.data \o Pack(field, content[name])) :
                    before \in {SerializeFields_skip_missing(content, fields, k - 1)} })

\* the loop of _serialize(content, name) over the first k fields;
\* content[name] raises KeyError, pack raises struct.error
RECURSIVE SerializeFields(_, _, _)
SerializeFields(content, fields, k) ==
    IF k = 0 THEN Returned(<<>>)
    ELSE LET name == fields[k][1]
             field == fields[k][2]
         IN  Only({ IF before.raised THEN before
                    ELSE IF name \notin DOMAIN content THEN Raised("KeyError")
                    ELSE IF ~PackOk(field, content[name]) THEN Raised("struct.error")
                    ELSE Returned(before.data \o Pack(field, content[name])) :
                    before \in {SerializeFields(content, fields, k - 1)} })

\* the fields of the other entries of MESSAGES
MESSAGES_waypoint_fields ==
    << <<"lattitude", "f">>, <<"longitude", "f">>, <<"holding_time", "H">> >>

MESSAGES_control_fields == << <<"type", "B">> >>

MESSAGES_message_fields == << <<"text", "40s">> >>

\* MESSAGES: the registry, name -> id and fields
MESSAGES ==
    [ global |-> [id |-> MESSAGES_global_id, fields |-> MESSAGES_global_fields],
      waypoint |-> [id |-> 2, fields |-> MESSAGES_waypoint_fields],
      control |-> [id |-> 3, fields |-> MESSAGES_control_fields],
      message |-> [id |-> 4, fields |-> MESSAGES_message_fields] ]

\* _serialize(content, name), and so serialize_<name>(content)
_serialize(content, name) ==
    SerializeFields(content, MESSAGES[name].fields, Len(MESSAGES[name].fields))

\* get_header(name)
get_header(name) == <<START, Byte(MESSAGES[name].id)>>

\* serialize(data): the assert, get_header (MESSAGES[name] raises KeyError),
\* then the fields
serialize(data) ==
    IF "name" \notin DOMAIN data THEN Raised("AssertionError")
    ELSE IF data.name \notin DOMAIN MESSAGES THEN Raised("KeyError")
    ELSE \* body: the fields of the schema
         Only({ IF body.raised THEN body
                ELSE Returned(get_header(data.name) \o body.data) :
                body \in {_serialize(data, data.name)} })

\* calcsize(ENDIAN + field) of one field
FieldSize(field) ==
    CASE field = "B" -> 1
      [] field = "H" -> 2
      [] field = "f" -> 4
      [] OTHER -> TEXT_SIZE

\* calcsize(get_struct_format(name)) over the first k fields
RECURSIVE calcsize(_, _)
calcsize(fields, k) ==
    IF k = 0 THEN 0 ELSE calcsize(fields, k - 1) + FieldSize(fields[k][2])

\* the field names of a schema
FieldNames(fields) == { fields[k][1] : k \in 1..Len(fields) }

\* what a decoding call gives: result is the dict it returned
DecodeRaised(error) == [raised |-> TRUE, error |-> error, name |-> "", result |-> <<>>]

\* _deserialize(data, name), and so deserialize_<name>(data): unpack takes
\* exactly calcsize bytes and raises struct.error otherwise; the dict has
\* the value of each field under its name
_deserialize(data, name) ==
    LET fields == MESSAGES[name].fields
        At(nm) == CHOOSE k \in 1..Len(fields) : fields[k][1] = nm
    IN  IF Len(data) # calcsize(fields, Len(fields)) THEN DecodeRaised("struct.error")
        ELSE [raised |-> FALSE, error |-> "", name |-> name,
              result |-> [nm \in FieldNames(fields) |->
                            Unpack(fields[At(nm)][2],
                                   SubSeq(data, calcsize(fields, At(nm) - 1) + 1,
                                          calcsize(fields, At(nm))))]]

\* deserialize with the assert on the id before the assert on the start byte
deserialize_id_first(data) ==
    IF Len(data) < 2 THEN DecodeRaised("IndexError")
    ELSE IF \A name \in DOMAIN MESSAGES : data[2] # Byte(MESSAGES[name].id)
         THEN DecodeRaised("Message id does not match")
    ELSE IF data[1] # START THEN DecodeRaised("Start byte does not match")
    ELSE LET name == CHOOSE n \in DOMAIN MESSAGES : data[2] = Byte(MESSAGES[n].id)
         IN  Only({ IF d.raised THEN d
                    ELSE [d EXCEPT !.result = @ @@ ("name" :> name)] :
                    d \in {_deserialize(SubSeq(data, 3, Len(data)), name)} })

\* deserialize without its result['name'] = name
deserialize_no_name(data) ==
    IF Len(data) < 1 THEN DecodeRaised("IndexError")
    ELSE IF data[1] # START THEN DecodeRaised("Start byte does not match")
    ELSE IF Len(data) < 2 THEN DecodeRaised("IndexError")
    ELSE IF \A name \in DOMAIN MESSAGES : data[2] # Byte(MESSAGES[name].id)
         THEN DecodeRaised("Message id does not match")
    ELSE LET name == CHOOSE n \in DOMAIN MESSAGES : data[2] = Byte(MESSAGES[n].id)
         IN  _deserialize(SubSeq(data, 3, Len(data)), name)

\* deserialize(data): data[0] and data[1] raise IndexError when the byte is
\* not there, the two asserts, then _deserialize(data[2:], name) and
\* result['name'] = name
deserialize(data) ==
    IF Len(data) < 1 THEN DecodeRaised("IndexError")
    ELSE IF data[1] # START THEN DecodeRaised("Start byte does not match")
    ELSE IF Len(data) < 2 THEN DecodeRaised("IndexError")
    ELSE IF \A name \in DOMAIN MESSAGES : data[2] # Byte(MESSAGES[name].id)
         THEN DecodeRaised("Message id does not match")
    ELSE LET name == CHOOSE n \in DOMAIN MESSAGES : data[2] = Byte(MESSAGES[n].id)
         IN  Only({ IF d.raised THEN d
                    ELSE [d EXCEPT !.result = @ @@ ("name" :> name)] :
                    d \in {_deserialize(SubSeq(data, 3, Len(data)), name)} })

\* global_message of gather_sensors_data.  Every fetch is in its own
\* try/except, so gathering itself never raises; position says whether
\* the GLOBAL_POSITION_INT fetch succeeded, gps2 whether the GPS2_RAW one
\* did.  "/" is Python's true division: its result is a float.  The two
\* time_ keys are no field of the schema.
global_message(position, gps2) ==
    [ name |-> "global",
      heading |-> PyFloat,
      max_abs_roll |-> PyInt(0),
      max_abs_pitch |-> PyInt(0),
      battery_voltage |-> PyFloat,
      battery_current |-> PyFloat,
      solar_voltage |-> PyFloat,
      solar_power |-> PyFloat,
      throttle_first |-> PyFloat,
      throttle_second |-> PyFloat,
      air_temperature |-> PyInt(0),
      water_temperature |-> PyInt(0),
      cpu |-> PyFloat,
      memory |-> PyFloat,
      disk |-> PyFloat,
      raspberry_temp |-> PyInt(0),
      raspberry_volt |-> PyInt(0),
      mission_status |-> PyInt(0),
      gps_fix_type |-> PyInt(255),
      sat_number |-> IF gps2 THEN PyFloat ELSE PyInt(0),
      lattitude |-> IF position THEN PyFloat ELSE PyInt(-1),
      longitude |-> IF position THEN PyFloat ELSE PyInt(-1),
      next_waypoint_lattitude |-> PyInt(0),
      next_waypoint_longitude |-> PyInt(0),
      vdop |-> IF gps2 THEN PyFloat ELSE PyInt(-1),
      hdop |-> IF gps2 THEN PyFloat ELSE PyInt(-1),
      time_boot_ms |-> PyFloat,
      time_unix_usec |-> PyFloat ]

\* gather_sensors_data(): return serialize(global_message)
gather_sensors_data(position, gps2) == serialize(global_message(position, gps2))

\* ------------------------------------------------------------------------
\* State
\* ------------------------------------------------------------------------

VARIABLES
    unsent_data,            \* main.py:68, oldest envelope first
    MESSAGES_ON_MT_QUEUE,   \* main.py:65
    REST_TIME_DATA_OUT,     \* main.py:66
    REST_TIME_DATA_IN,      \* main.py:67
    pc_out,                 \* where main_data_out_loop is
    pc_in,                  \* where main_data_in_loop is
    income_data,            \* the message poll returned, None when none
    in_retries,             \* retries of get_data_through_rockblock
    mt_texts,               \* environment: the texts the ground station sends
    mt_left,                \* environment: messages it still sends, or Unlimited
    drain_pc,               \* where send_data_through_rockblock is
    it_index,               \* reversed(unsent_data): position read next (1-based)
    data_package,           \* loop variable of send_data_through_rockblock
    retries,                \* retries of send_data_through_rockblock
    nextId,                 \* history: identity given to the next envelope
    delivered,              \* history: identities transmitted with status <= 5
    exhausted,              \* history: identities that used up max_retries in a drain
    drainStart,             \* history: unsent_data when the running drain began
    visits,                 \* history: envelopes the running drain has visited, in order
    sawSuccess,             \* history: the running drain had a status <= 5
    sawFailure,             \* history: the running drain had a status > 5
    successes,              \* history: sends of the running drain with a status <= 5
    tries,                  \* history: satellite_transfer calls made for data_package
    lastOk,                 \* history: the last of them had a status <= 5
    events,                 \* history: what the running inbound iteration did
    open_sers,              \* the serial.Serial handles that are open, by holder:
                            \* "out" and "in" are the call running in that task,
                            \* "lost" a handle whose call ended without ser.close()
    poll,                   \* history: what the running poll read and did
    out_events,             \* history: what the running outbound iteration did
    codec_pc,               \* where the self-test of messages.py is ("off": not run)
    test_message,           \* messages.py:122-180, the dict under test
    schema,                 \* the <name> of serialize_<name> and deserialize_<name>
    bare,                   \* what serialize_<name>(message) gave
    bare_received,          \* the bytes given to deserialize_<name>
    bare_decoded,           \* what deserialize_<name> gave
    wire,                   \* what serialize(message) gave
    received,               \* the bytes given to deserialize
    decoded,                \* what deserialize gave
    sup_pc,                 \* where main() of supervisor/main.py is ("off": not run)
    sup_service,            \* supervisor/main.py:99, position of the for loop (1-based)
    sessions,               \* the tmux sessions that exist, by service name
    utc_time_last_reach,    \* supervisor/main.py:54, by service name
    utcnow,                 \* datetime.utcnow() of the supervisor, in seconds
                            \* since the module was loaded
    sup_checks,             \* history: what the last check of each service
                            \* found and which tmux operations it ran
    logger_pc,              \* where the tests of data_logger/test.py are
                            \* ("off": not run)
    document,               \* the JSON document the tests load
    filtered,               \* what system_information_filter gave
    flattened,              \* the dict given to flatten_dict
    flat,                   \* what flatten_dict gave
    call,                   \* the call of data_gathering: keywords and response
    gathered                \* what data_gathering gave

progVars ==
    << unsent_data, MESSAGES_ON_MT_QUEUE, REST_TIME_DATA_OUT, REST_TIME_DATA_IN,
       pc_out, pc_in, income_data, in_retries, mt_texts, mt_left, drain_pc, it_index,
       data_package, retries, nextId, delivered, exhausted, drainStart,
       visits, sawSuccess, sawFailure, successes, tries, lastOk, events,
       open_sers, poll, out_events >>

codecVars ==
    << codec_pc, test_message, schema, bare, bare_received, bare_decoded, wire,
       received, decoded >>

supVars ==
    << sup_pc, sup_service, sessions, utc_time_last_reach, utcnow, sup_checks >>

\* what the satellite service leaves alone, and what the self-test of
\* messages.py, the supervisor and the tests of the data logger leave
\* alone besides their own variables
loggerVars == << logger_pc, document, filtered, flattened, flat, call, gathered >>

notServiceVars == << codecVars, supVars, loggerVars >>

notCodecVars == << progVars, supVars, loggerVars >>

notSupervisorVars == << progVars, codecVars, loggerVars >>

notLoggerVars == << progVars, codecVars, supVars >>

vars == << progVars, codecVars, supVars, loggerVars >>

drainVars ==
    << drain_pc, it_index, data_package, retries, drainStart, visits,
       sawSuccess, sawFailure, successes, tries, lastOk >>

restVars == << REST_TIME_DATA_OUT, REST_TIME_DATA_IN >>

envVars == << mt_texts, mt_left >>

TrackedIds == 1..MaxTracked

\* an envelope of unsent_data: the bytes, and (history) its identity,
\* 0 for the envelopes after the first MaxTracked
Envelope(data, nid) ==
    [id |-> IF nid <= MaxTracked THEN nid ELSE 0, data |-> data]

NextIdAfter(nid) == IF nid <= MaxTracked THEN nid + 1 ELSE nid

NoPackage == [id |-> 0, data |-> None]

\* one entry of events
Ev(kind, type, nums, text) ==
    [kind |-> kind, type |-> type, nums |-> nums, text |-> text]

RaiseEv == Ev("raise", "", <<>>, <<>>)

DrainEv == Ev("drain", "", <<>>, <<>>)

\* beat_the_heart() was called
BeatEv == Ev("beat", "", <<>>, <<>>)

\* poll before get_data_through_rockblock has read anything: ring is
\* rb.status[4] == 1, pending is MESSAGES_ON_MT_QUEUE when the call began,
\* tries counts the satellite_transfer calls, ok says the last one had a
\* status <= 5, data_in and remaining are rb.data_in and status_pkg[5] after
\* the last one
NoPoll ==
    [ring |-> FALSE, pending |-> FALSE, tries |-> 0, ok |-> FALSE,
     data_in |-> None, remaining |-> 0]

\* nothing has been encoded or decoded
NotCalled == [raised |-> FALSE, error |-> "", data |-> <<>>]

NotDecoded == [raised |-> FALSE, error |-> "", name |-> "", result |-> <<>>]

\* the self-test of messages.py has called nothing yet
CodecFresh ==
    /\ schema = ""
    /\ bare = NotCalled
    /\ bare_received = <<>>
    /\ bare_decoded = NotDecoded
    /\ wire = NotCalled
    /\ received = <<>>
    /\ decoded = NotDecoded

\* main.py:64-68 and the state of its two tasks when the event loop starts
ServiceInit ==
    /\ unsent_data = <<>>
    /\ MESSAGES_ON_MT_QUEUE = FALSE
    /\ REST_TIME_DATA_OUT = REST_TIME_DATA_OUT_DEFAULT
    /\ REST_TIME_DATA_IN = REST_TIME_DATA_IN_DEFAULT
    /\ pc_out = "sleep"
    /\ pc_in = "sleep"
    /\ income_data = None
    /\ in_retries = 0
    /\ \/ mt_texts = QueueCommands /\ mt_left = Unlimited
       \/ mt_texts = Commands /\ mt_left = MaxInbound
    /\ drain_pc = "idle"
    /\ it_index = 0
    /\ data_package = NoPackage
    /\ retries = 0
    /\ nextId = 1
    /\ delivered = {}
    /\ exhausted = {}
    /\ drainStart = <<>>
    /\ visits = <<>>
    /\ sawSuccess = FALSE
    /\ sawFailure = FALSE
    /\ successes = 0
    /\ tries = 0
    /\ lastOk = FALSE
    /\ events = <<>>
    /\ open_sers = {}
    /\ poll = NoPoll
    /\ out_events = <<>>

\* A JSON value as Python holds it: a dict is the sequence of its
\* << key, value >> items in insertion order, a list the sequence of its
\* << "", value >> elements, anything else a leaf (a string, a number as
\* its text) or None
JDict(items) == [kind |-> "dict", items |-> items, leaf |-> ""]

JList(values) ==
    [kind |-> "list", items |-> [k \in DOMAIN values |-> << "", values[k] >>],
     leaf |-> ""]

JLeaf(text) == [kind |-> "leaf", items |-> <<>>, leaf |-> text]

JNone == [kind |-> "None", items |-> <<>>, leaf |-> ""]

\* key in dictionary, and dictionary.get(key, None)
HasKey(dictionary, key) ==
    \E i \in DOMAIN dictionary.items : dictionary.items[i][1] = key

Get(dictionary, key) ==
    IF HasKey(dictionary, key)
    THEN dictionary.items[CHOOSE i \in DOMAIN dictionary.items :
                             dictionary.items[i][1] = key][2]
    ELSE JNone

\* data_gathering was not called
NoCall == [keywords |-> {}, response |-> [raises |-> FALSE, status_code |-> 0,
                                        text |-> "", json |-> JNone]]

\* the tests of data_logger/test.py have called nothing yet
LoggerFresh ==
    /\ filtered = NotCalled
    /\ flattened = JNone
    /\ flat = NotCalled
    /\ call = NoCall
    /\ gathered = NotCalled

\* data_logger is another process: its tests do not run
LoggerOff ==
    /\ logger_pc = "off"
    /\ document = JNone
    /\ LoggerFresh

\* supervisor/main.py:13
REST_TIME_SERVICES_CHECK == 300

\* supervisor/main.py:73-88, the name and the threshold of each service
services ==
    << [name |-> "sats_comm", seconds_off_before_killing |-> 600],
       [name |-> "victron-energy-mppt", seconds_off_before_killing |-> 3600] >>

ServiceNames == { services[i].name : i \in DOMAIN services }

\* supervisor/main.py:48-70, the fields and methods of class Service
Service_attributes ==
    { "name", "status_url", "seconds_off_before_killing", "command_line",
      "utc_time_last_reach", "restart", "kill", "start" }

\* history: a service that was not checked yet
NotChecked ==
    [checked |-> FALSE, no_heartbeats_for_too_long |-> FALSE,
     unreachable_for_too_long |-> FALSE, ran |-> <<>>, raised |-> FALSE]

\* supervisor/main.py is not running; services[..].utc_time_last_reach is
\* the time the module was loaded (79, 86)
SupervisorFresh ==
    /\ sup_service = 1
    /\ sessions = [name \in ServiceNames |-> FALSE]
    /\ utc_time_last_reach = [name \in ServiceNames |-> 0]
    /\ utcnow = 0
    /\ sup_checks = [name \in ServiceNames |-> NotChecked]

\* the service: main.py imports messages.py, whose self-test does not run
Init ==
    /\ ServiceInit
    /\ codec_pc = "off"
    /\ test_message = <<>>
    /\ CodecFresh
    /\ sup_pc = "off"
    /\ SupervisorFresh
    /\ LoggerOff

\* ------------------------------------------------------------------------
\* send_data_through_rockblock (main.py:70-92)
\* ------------------------------------------------------------------------

\* the call: init_rockblock(), then reversed(unsent_data) starts at the
\* last element of the list q
CallDrain(q) ==
    /\ drain_pc' = "next"
    /\ it_index' = Len(q)
    /\ data_package' = NoPackage
    /\ retries' = 0
    /\ drainStart' = q
    /\ visits' = <<>>
    /\ sawSuccess' = FALSE
    /\ sawFailure' = FALSE
    /\ successes' = 0
    /\ tries' = 0
    /\ lastOk' = FALSE

\* the frame of the call is gone
LeaveDrain ==
    /\ drain_pc' = "idle"
    /\ it_index' = 0
    /\ data_package' = NoPackage
    /\ retries' = 0
    /\ drainStart' = <<>>
    /\ visits' = <<>>
    /\ sawSuccess' = FALSE
    /\ sawFailure' = FALSE
    /\ successes' = 0
    /\ tries' = 0
    /\ lastOk' = FALSE

\* DrainNext iterating the list itself instead of reversed(unsent_data):
\* a list iterator counts its position up from the first element
DrainNext_forward ==
    /\ drain_pc = "next"
    /\ LET position == Len(drainStart) - it_index + 1
       IN  IF it_index >= 1 /\ position <= Len(unsent_data)
           THEN /\ data_package' = unsent_data[position]
                /\ it_index' = it_index - 1
                /\ retries' = 0
                /\ visits' = Append(visits, unsent_data[position])
                /\ tries' = 0
                /\ lastOk' = FALSE
                /\ drain_pc' = IF 0 < max_retries THEN "attempt" ELSE "next"
           ELSE /\ drain_pc' = "done"
                /\ UNCHANGED <<data_package, it_index, retries, visits, tries, lastOk>>
    /\ UNCHANGED << unsent_data, MESSAGES_ON_MT_QUEUE, restVars, envVars, pc_out, pc_in,
                    income_data, in_retries, nextId, delivered, exhausted,
                    drainStart, sawSuccess, sawFailure, successes, events,
                    open_sers, poll,
                    out_events >>
    /\ UNCHANGED notServiceVars

\* DrainNext with "retries = 0" hoisted out of the for loop: the count of
\* the envelope before carries over to the next one
DrainNext_keep_retries ==
    /\ drain_pc = "next"
    /\ IF it_index >= 1 /\ it_index <= Len(unsent_data)
       THEN /\ data_package' = unsent_data[it_index]
            /\ it_index' = it_index - 1
            /\ retries' = retries
            /\ visits' = Append(visits, unsent_data[it_index])
            /\ tries' = 0
            /\ lastOk' = FALSE
            /\ drain_pc' = IF retries < max_retries THEN "attempt" ELSE "next"
       ELSE /\ drain_pc' = "done"
            /\ UNCHANGED <<data_package, it_index, retries, visits, tries, lastOk>>
    /\ UNCHANGED << unsent_data, MESSAGES_ON_MT_QUEUE, restVars, envVars, pc_out, pc_in,
                    income_data, in_retries, nextId, delivered, exhausted,
                    drainStart, sawSuccess, sawFailure, successes, events,
                    open_sers, poll,
                    out_events >>
    /\ UNCHANGED notServiceVars

\* DrainNext taking the last element of the list for as many rounds as the
\* list had envelopes ("for _ in range(len(unsent_data)):
\* data_package = unsent_data[-1]"): an envelope whose sends failed stays
\* last and is taken again, and the envelopes before it are never reached
DrainNext_last_element ==
    /\ drain_pc = "next"
    /\ IF it_index >= 1 /\ unsent_data # <<>>
       THEN /\ data_package' = unsent_data[Len(unsent_data)]
            /\ it_index' = it_index - 1
            /\ retries' = 0
            /\ visits' = Append(visits, unsent_data[Len(unsent_data)])
            /\ tries' = 0
            /\ lastOk' = FALSE
            /\ drain_pc' = IF 0 < max_retries THEN "attempt" ELSE "next"
       ELSE /\ drain_pc' = "done"
            /\ UNCHANGED <<data_package, it_index, retries, visits, tries, lastOk>>
    /\ UNCHANGED << unsent_data, MESSAGES_ON_MT_QUEUE, restVars, envVars, pc_out, pc_in,
                    income_data, in_retries, nextId, delivered, exhausted,
                    drainStart, sawSuccess, sawFailure, successes, events,
                    open_sers, poll, out_events >>
    /\ UNCHANGED notServiceVars

\* main.py:73-77: the reversed-list iterator yields the element at its
\* position if that position is still inside the list, and steps down
DrainNext ==
    /\ drain_pc = "next"
    /\ IF it_index >= 1 /\ it_index <= Len(unsent_data)
       THEN /\ data_package' = unsent_data[it_index]
            /\ it_index' = it_index - 1
            /\ retries' = 0
            /\ visits' = Append(visits, unsent_data[it_index])
            /\ tries' = 0
            /\ lastOk' = FALSE
            /\ drain_pc' = IF 0 < max_retries THEN "attempt" ELSE "next"
       ELSE /\ drain_pc' = "done"
            /\ UNCHANGED <<data_package, it_index, retries, visits, tries, lastOk>>
    /\ UNCHANGED << unsent_data, MESSAGES_ON_MT_QUEUE, restVars, envVars, pc_out, pc_in,
                    income_data, in_retries, nextId, delivered, exhausted,
                    drainStart, sawSuccess, sawFailure, successes, events,
                    open_sers, poll,
                    out_events >>
    /\ UNCHANGED notServiceVars

\* list.clear() in the place of list.pop()
Pop_clear(q) == <<>>

\* list.pop(): the list without its last element
Pop(q) == SubSeq(q, 1, Len(q) - 1)

\* main.py:78-91: one pass of the while loop, rb.satellite_transfer()
\* reporting mo_status
SatelliteTransferOut(mo_status) ==
    /\ drain_pc = "attempt"
    /\ tries' = tries + 1
    /\ lastOk' = (mo_status <= SUCCESS_THRESHOLD)
    /\ IF mo_status <= SUCCESS_THRESHOLD
       THEN /\ unsent_data' = Pop(unsent_data)
            /\ delivered' = delivered \cup ({data_package.id} \cap TrackedIds)
            /\ sawSuccess' = TRUE
            /\ successes' = successes + 1
            /\ drain_pc' = "next"
            /\ UNCHANGED <<retries, exhausted, sawFailure>>
       ELSE /\ retries' = retries + 1
            /\ drain_pc' = IF retries + 1 < max_retries THEN "attempt" ELSE "next"
            /\ exhausted' = IF retries + 1 < max_retries THEN exhausted
                            ELSE exhausted \cup ({data_package.id} \cap TrackedIds)
            /\ sawFailure' = TRUE
            /\ UNCHANGED <<unsent_data, delivered, sawSuccess, successes>>
    /\ UNCHANGED << MESSAGES_ON_MT_QUEUE, restVars, envVars, pc_out, pc_in, income_data,
                    in_retries, it_index, data_package, nextId, drainStart,
                    visits, events, open_sers, poll, out_events >>
    /\ UNCHANGED notServiceVars

\* the task whose call of send_data_through_rockblock is running
DrainHolder == IF pc_out = "drain" THEN "out" ELSE "in"

\* ser.close() by the call of holder
Close(sers, holder) == sers \ {holder}

\* the call of holder ends by an exception, without ser.close(): the handle
\* stays open with nobody holding it, unless the interpreter finalizes the
\* Serial object when it drops the frame
Abandon(sers, holder, finalized) ==
    IF finalized \/ holder \notin sers THEN sers \ {holder}
    ELSE (sers \ {holder}) \cup {"lost"}

\* rb.satellite_transfer() raises (serial I/O error): the exception leaves
\* send_data_through_rockblock and its caller and reaches the except clause
\* of the loop that is running
SatelliteTransferOutRaises(finalized) ==
    /\ drain_pc = "attempt"
    /\ LeaveDrain
    /\ open_sers' = Abandon(open_sers, DrainHolder, finalized)
    /\ IF pc_out = "drain"
       THEN /\ pc_out' = "finally"
            /\ out_events' = Append(out_events, RaiseEv)
            /\ UNCHANGED <<pc_in, events>>
       ELSE /\ pc_in' = "finally"
            /\ events' = Append(events, RaiseEv)
            /\ UNCHANGED <<pc_out, out_events>>
    /\ UNCHANGED << unsent_data, MESSAGES_ON_MT_QUEUE, restVars, envVars, income_data,
                    in_retries, nextId, delivered, exhausted, poll >>
    /\ UNCHANGED notServiceVars

\* main.py:92: ser.close() and return to the caller: the outbound loop
\* (main.py:476, beat_the_heart), the get_mode branch (main.py:290) or the
\* end of deal_with_income_data (main.py:304)
DrainReturn ==
    /\ drain_pc = "done"
    /\ LeaveDrain
    /\ open_sers' = Close(open_sers, DrainHolder)
    /\ IF pc_out = "drain"
       THEN /\ pc_out' = "finally"
            /\ out_events' = Append(out_events, BeatEv)
            /\ UNCHANGED pc_in
       ELSE /\ pc_in' = IF pc_in = "drain1" THEN "dispatch2" ELSE "finally"
            /\ UNCHANGED <<pc_out, out_events>>
    /\ UNCHANGED << unsent_data, MESSAGES_ON_MT_QUEUE, restVars, envVars, income_data,
                    in_retries, nextId, delivered, exhausted, events, poll >>
    /\ UNCHANGED notServiceVars

\* ------------------------------------------------------------------------
\* main_data_out_loop (main.py:465-481)
\* ------------------------------------------------------------------------

\* OutIteration with beat_the_heart() in the finally clause, where it runs
\* after an exception as well
OutIteration_beat_in_finally(position, gps2) ==
    /\ pc_out = "sleep"
    /\ pc_in = "sleep"
    /\ \E new_data \in {gather_sensors_data(position, gps2)} :
          IF new_data.raised
          THEN /\ pc_out' = "finally"
               /\ out_events' = <<RaiseEv, BeatEv>>
               /\ UNCHANGED <<unsent_data, nextId, drainVars, open_sers>>
          ELSE /\ unsent_data' = Append(unsent_data, Envelope(new_data.data, nextId))
               /\ nextId' = NextIdAfter(nextId)
               /\ out_events' = <<Ev("append", "", <<>>, new_data.data), DrainEv>>
               /\ CallDrain(unsent_data')
               /\ open_sers' = open_sers \cup {"out"}
               /\ pc_out' = "drain"
    /\ UNCHANGED << MESSAGES_ON_MT_QUEUE, restVars, envVars, pc_in, income_data,
                    in_retries, delivered, exhausted, events, poll >>
    /\ UNCHANGED notServiceVars

\* main.py:467-478: one iteration up to its drain; an exception of
\* gather_sensors_data goes to the except clause
OutIteration(position, gps2) ==
    /\ pc_out = "sleep"
    /\ pc_in = "sleep"
    /\ \E new_data \in {gather_sensors_data(position, gps2)} :
          IF new_data.raised
          THEN /\ pc_out' = "finally"
               /\ out_events' = <<RaiseEv>>
               /\ UNCHANGED <<unsent_data, nextId, drainVars, open_sers>>
          ELSE /\ unsent_data' = Append(unsent_data, Envelope(new_data.data, nextId))
               /\ nextId' = NextIdAfter(nextId)
               /\ out_events' = <<Ev("append", "", <<>>, new_data.data), DrainEv>>
               /\ CallDrain(unsent_data')
               /\ open_sers' = open_sers \cup {"out"}
               /\ pc_out' = "drain"
    /\ UNCHANGED << MESSAGES_ON_MT_QUEUE, restVars, envVars, pc_in, income_data,
                    in_retries, delivered, exhausted, events, poll >>
    /\ UNCHANGED notServiceVars

\* main.py:479-481: the finally clause, await asyncio.sleep(REST_TIME_DATA_OUT)
OutRest ==
    /\ pc_out = "finally"
    /\ pc_out' = "sleep"
    /\ out_events' = <<>>
    /\ UNCHANGED << unsent_data, MESSAGES_ON_MT_QUEUE, restVars, envVars, pc_in,
                    income_data, in_retries, drainVars, nextId, delivered,
                    exhausted, events, open_sers, poll >>
    /\ UNCHANGED notServiceVars

\* ------------------------------------------------------------------------
\* get_data_through_rockblock (main.py:94-123) and main_data_in_loop
\* (main.py:483-495)
\* ------------------------------------------------------------------------

\* PollBegin in a program whose tasks interleave (threads, or awaits inside
\* the calls of the modem): the inbound iteration starts whatever the
\* outbound task is doing
PollBegin_interleaved(ring_alert_received) ==
    /\ pc_in = "sleep"
    /\ open_sers' = open_sers \cup {"in"}
    /\ poll' = [NoPoll EXCEPT !.ring = ring_alert_received,
                              !.pending = MESSAGES_ON_MT_QUEUE]
    /\ IF MESSAGES_ON_MT_QUEUE \/ ring_alert_received
       THEN pc_in' = IF 0 < max_retries_in THEN "poll_attempt" ELSE "polled"
       ELSE pc_in' = "polled"
    /\ in_retries' = 0
    /\ income_data' = None
    /\ events' = <<>>
    /\ UNCHANGED << unsent_data, MESSAGES_ON_MT_QUEUE, restVars, envVars, pc_out,
                    drainVars, nextId, delivered, exhausted, out_events >>
    /\ UNCHANGED notServiceVars

\* PollBegin testing the ring alert alone ("if ring_alert_received:"), the
\* pending flag forgotten
PollBegin_ring_only(ring_alert_received) ==
    /\ pc_in = "sleep"
    /\ pc_out = "sleep"
    /\ open_sers' = open_sers \cup {"in"}
    /\ poll' = [NoPoll EXCEPT !.ring = ring_alert_received,
                              !.pending = MESSAGES_ON_MT_QUEUE]
    /\ IF ring_alert_received
       THEN pc_in' = IF 0 < max_retries_in THEN "poll_attempt" ELSE "polled"
       ELSE pc_in' = "polled"
    /\ in_retries' = 0
    /\ income_data' = None
    /\ events' = <<>>
    /\ UNCHANGED << unsent_data, MESSAGES_ON_MT_QUEUE, restVars, envVars, pc_out,
                    drainVars, nextId, delivered, exhausted, out_events >>
    /\ UNCHANGED notServiceVars

\* main.py:485-487 and 95-105: the iteration starts, init_rockblock() opens
\* the serial port and the status register is read; the while loop is
\* entered when the ring alert or the pending flag is set
PollBegin(ring_alert_received) ==
    /\ pc_in = "sleep"
    /\ pc_out = "sleep"
    /\ open_sers' = open_sers \cup {"in"}
    /\ poll' = [NoPoll EXCEPT !.ring = ring_alert_received,
                              !.pending = MESSAGES_ON_MT_QUEUE]
    /\ IF MESSAGES_ON_MT_QUEUE \/ ring_alert_received
       THEN pc_in' = IF 0 < max_retries_in THEN "poll_attempt" ELSE "polled"
       ELSE pc_in' = "polled"
    /\ in_retries' = 0
    /\ income_data' = None
    /\ events' = <<>>
    /\ UNCHANGED << unsent_data, MESSAGES_ON_MT_QUEUE, restVars, envVars, pc_out,
                    drainVars, nextId, delivered, exhausted, out_events >>
    /\ UNCHANGED notServiceVars

\* envelopes the dispatcher appends for a message (the model keeps
\* unsent_data within MaxQueue by not delivering a message that would
\* take it further)
Room(message) ==
    IF message = None THEN 0
    ELSE IF StartsWith(message, P_get_mode) THEN 2
    ELSE 1

\* SatelliteTransferIn updating the pending flag from status_pkg[5] before
\* the status test, so also after a failed attempt
SatelliteTransferIn_flag_always(mo_status, data_in, remaining) ==
    /\ pc_in = "poll_attempt"
    /\ data_in # None =>
          /\ data_in \in mt_texts
          /\ mt_left # 0
          /\ Len(unsent_data) + Room(data_in) <= MaxQueue
    /\ mt_left' = IF data_in # None /\ mt_left > 0 /\ mo_status <= SUCCESS_THRESHOLD
                  THEN mt_left - 1 ELSE mt_left
    /\ UNCHANGED mt_texts
    /\ MESSAGES_ON_MT_QUEUE' = (remaining > 0)
    /\ IF mo_status <= SUCCESS_THRESHOLD
       THEN /\ income_data' = data_in
            /\ pc_in' = "polled"
            /\ poll' = [poll EXCEPT !.tries = @ + 1, !.ok = TRUE,
                                    !.data_in = data_in, !.remaining = remaining]
            /\ UNCHANGED in_retries
       ELSE /\ in_retries' = in_retries + 1
            /\ pc_in' = IF in_retries + 1 < max_retries_in THEN "poll_attempt" ELSE "polled"
            /\ poll' = [poll EXCEPT !.tries = @ + 1, !.ok = FALSE, !.data_in = data_in]
            /\ UNCHANGED income_data
    /\ UNCHANGED << unsent_data, restVars, pc_out, drainVars, nextId, delivered,
                    exhausted, events, open_sers, out_events >>
    /\ UNCHANGED notServiceVars

\* SatelliteTransferIn with the loop test "while retries <= max_retries":
\* one attempt more
SatelliteTransferIn_one_more(mo_status, data_in, remaining) ==
    /\ pc_in = "poll_attempt"
    /\ data_in # None =>
          /\ data_in \in mt_texts
          /\ mt_left # 0
          /\ Len(unsent_data) + Room(data_in) <= MaxQueue
    /\ mt_left' = IF data_in # None /\ mt_left > 0 /\ mo_status <= SUCCESS_THRESHOLD
                  THEN mt_left - 1 ELSE mt_left
    /\ UNCHANGED mt_texts
    /\ IF mo_status <= SUCCESS_THRESHOLD
       THEN /\ income_data' = data_in
            /\ MESSAGES_ON_MT_QUEUE' = (remaining > 0)
            /\ pc_in' = "polled"
            /\ poll' = [poll EXCEPT !.tries = @ + 1, !.ok = TRUE,
                                    !.data_in = data_in, !.remaining = remaining]
            /\ UNCHANGED in_retries
       ELSE /\ in_retries' = in_retries + 1
            /\ pc_in' = IF in_retries + 1 <= max_retries_in THEN "poll_attempt" ELSE "polled"
            /\ poll' = [poll EXCEPT !.tries = @ + 1, !.ok = FALSE, !.data_in = data_in]
            /\ UNCHANGED <<income_data, MESSAGES_ON_MT_QUEUE>>
    /\ UNCHANGED << unsent_data, restVars, pc_out, drainVars, nextId, delivered,
                    exhausted, events, open_sers, out_events >>
    /\ UNCHANGED notServiceVars

\* main.py:106-121: one pass of the while loop,
\* rb.satellite_transfer(ring=True) reporting mo_status, with data_in in the
\* inbound register and remaining = status_pkg[5]
SatelliteTransferIn(mo_status, data_in, remaining) ==
    /\ pc_in = "poll_attempt"
    /\ data_in # None =>
          /\ data_in \in mt_texts
          /\ mt_left # 0
          /\ Len(unsent_data) + Room(data_in) <= MaxQueue
    /\ mt_left' = IF data_in # None /\ mt_left > 0 /\ mo_status <= SUCCESS_THRESHOLD
                  THEN mt_left - 1 ELSE mt_left
    /\ UNCHANGED mt_texts
    /\ IF mo_status <= SUCCESS_THRESHOLD
       THEN /\ income_data' = data_in
            /\ MESSAGES_ON_MT_QUEUE' = (remaining > 0)
            /\ pc_in' = "polled"
            /\ poll' = [poll EXCEPT !.tries = @ + 1, !.ok = TRUE,
                                    !.data_in = data_in, !.remaining = remaining]
            /\ UNCHANGED in_retries
       ELSE /\ in_retries' = in_retries + 1
            /\ pc_in' = IF in_retries + 1 < max_retries_in THEN "poll_attempt" ELSE "polled"
            /\ poll' = [poll EXCEPT !.tries = @ + 1, !.ok = FALSE, !.data_in = data_in]
            /\ UNCHANGED <<income_data, MESSAGES_ON_MT_QUEUE>>
    /\ UNCHANGED << unsent_data, restVars, pc_out, drainVars, nextId, delivered,
                    exhausted, events, open_sers, out_events >>
    /\ UNCHANGED notServiceVars

\* SatelliteTransferInRaises with an except clause that does not catch the
\* error of the modem: the exception leaves main_data_in_loop and the task
\* is over
SatelliteTransferInRaises_uncaught(finalized) ==
    /\ pc_in = "poll_attempt"
    /\ pc_in' = "ended"
    /\ events' = Append(events, RaiseEv)
    /\ open_sers' = Abandon(open_sers, "in", finalized)
    /\ poll' = NoPoll
    /\ UNCHANGED << unsent_data, MESSAGES_ON_MT_QUEUE, restVars, envVars, pc_out,
                    income_data, in_retries, drainVars, nextId, delivered, exhausted,
                    out_events >>
    /\ UNCHANGED notServiceVars

\* rb.satellite_transfer(ring=True) raises: the exception leaves
\* get_data_through_rockblock for the except clause of the loop
SatelliteTransferInRaises(finalized) ==
    /\ pc_in = "poll_attempt"
    /\ pc_in' = "finally"
    /\ events' = Append(events, RaiseEv)
    /\ open_sers' = Abandon(open_sers, "in", finalized)
    /\ poll' = NoPoll
    /\ UNCHANGED << unsent_data, MESSAGES_ON_MT_QUEUE, restVars, envVars, pc_out,
                    income_data, in_retries, drainVars, nextId, delivered, exhausted,
                    out_events >>
    /\ UNCHANGED notServiceVars

\* PollReturn handing whatever the poll returned to deal_with_income_data
PollReturn_always_dispatch ==
    /\ pc_in = "polled"
    /\ open_sers' = Close(open_sers, "in")
    /\ pc_in' = "dispatch"
    /\ in_retries' = 0
    /\ poll' = NoPoll
    /\ UNCHANGED << unsent_data, MESSAGES_ON_MT_QUEUE, restVars, envVars, pc_out,
                    income_data, drainVars, nextId, delivered, exhausted, events,
                    out_events >>
    /\ UNCHANGED notServiceVars

\* main.py:122-123 and 487-490: ser.close(), return last_message; the loop
\* hands a message that is not None to deal_with_income_data
PollReturn ==
    /\ pc_in = "polled"
    /\ open_sers' = Close(open_sers, "in")
    /\ pc_in' = IF income_data # None THEN "dispatch" ELSE "finally"
    /\ in_retries' = 0
    /\ poll' = NoPoll
    /\ UNCHANGED << unsent_data, MESSAGES_ON_MT_QUEUE, restVars, envVars, pc_out,
                    income_data, drainVars, nextId, delivered, exhausted, events,
                    out_events >>
    /\ UNCHANGED notServiceVars

\* main.py:493-495: the finally clause, await asyncio.sleep(REST_TIME_DATA_IN)
InRest ==
    /\ pc_in = "finally"
    /\ pc_in' = "sleep"
    /\ income_data' = None
    /\ in_retries' = 0
    /\ events' = <<>>
    /\ UNCHANGED << unsent_data, MESSAGES_ON_MT_QUEUE, restVars, envVars, pc_out,
                    drainVars, nextId, delivered, exhausted, open_sers, poll,
                    out_events >>
    /\ UNCHANGED notServiceVars

\* ------------------------------------------------------------------------
\* deal_with_income_data (main.py:208-304)
\* ------------------------------------------------------------------------

\* The dispatcher is computed on a record d: raised (an exception is
\* propagating), events, ncalls (external requests made so far in this step),
\* rest_out and rest_in (the two globals), queue (unsent_data), nextId.
\* failAt is the number of the external request that raises (timeout,
\* connection error), 0 when none does.
ExtCalls == 0..4

Raise(d) == [d EXCEPT !.raised = TRUE, !.events = Append(@, RaiseEv)]

\* a statement that raises unless cond holds (unpacking, int(), float(), ...)
Require(d0, cond) ==
    Only({ IF d.raised THEN d
           ELSE IF cond THEN d
           ELSE Raise(d) : d \in {d0} })

\* requests.post / requests.get of event ev
External(d0, ev, failAt) ==
    Only({ IF d.raised THEN d
           ELSE IF d.ncalls + 1 = failAt
                THEN [d EXCEPT !.ncalls = @ + 1,
                               !.events = @ \o <<ev, RaiseEv>>,
                               !.raised = TRUE]
                ELSE [d EXCEPT !.ncalls = @ + 1, !.events = Append(@, ev)] :
           d \in {d0} })

\* unsent_data.append(data)
AppendEnvelope(d0, data) ==
    Only({ IF d.raised THEN d
           ELSE [d EXCEPT !.queue = Append(@, Envelope(data, d.nextId)),
                          !.nextId = NextIdAfter(@),
                          !.events = Append(@, Ev("append", "", <<>>, data))] :
           d \in {d0} })

\* the i-th token of a split, empty when there is none
Tok(parts, i) == IF i <= Len(parts) THEN parts[i] ELSE <<>>

\* main.py:148-162 with 164-171: send_mavlink_message(command_long_message(..))
command_long_message(command_type, nums, text) ==
    Ev("call", command_type, nums, text)

\* main.py:173-206: set_param(param_name, value); writing past the 16
\* entries of param_id raises IndexError
set_param(d, param_name, value, failAt) ==
    External(Require(d, Len(param_name) <= PARAM_ID_LEN),
             Ev("call", "PARAM_SET", <<>>, param_name \o <<"=">> \o value),
             failAt)

\* DoWaypoint with the change of mode before the mission pause parameter
DoWaypoint_mode_first(d, text, failAt) ==
    IF d.raised \/ ~StartsWith(text, P_waypoint) THEN d
    ELSE LET parts == Split(text)
             lat == Tok(parts, 2)
             lon == Tok(parts, 3)
             wait_time == Tok(parts, 4)
             next_id == Tok(parts, 5)
             d1 == Require(Require(d, Len(parts) = 5), IsFloat(wait_time))
             d2 == External(d1, command_long_message("MAV_CMD_DO_SET_MODE", <<1, 15>>, <<>>), failAt)
             d3 == set_param(d2, S_MISSION_PAUSE_S, wait_time, failAt)
             d4 == Require(d3, IsFloat(lat) /\ IsFloat(lon))
             d5 == External(d4, Ev("call", "MISSION_ITEM_INT", <<>>, lat \o <<"/">> \o lon), failAt)
             d6 == Require(d5, IsInt(next_id))
         IN  External(d6, Ev("call", "MISSION_SET_CURRENT", <<>>, next_id), failAt)

\* main.py:209-257
DoWaypoint(d, text, failAt) ==
    IF d.raised \/ ~StartsWith(text, P_waypoint) THEN d
    ELSE LET parts == Split(text)
             lat == Tok(parts, 2)
             lon == Tok(parts, 3)
             wait_time == Tok(parts, 4)
             next_id == Tok(parts, 5)
             d1 == Require(Require(d, Len(parts) = 5), IsFloat(wait_time))
             d2 == set_param(d1, S_MISSION_PAUSE_S, wait_time, failAt)
             d3 == External(d2, command_long_message("MAV_CMD_DO_SET_MODE", <<1, 15>>, <<>>), failAt)
             d4 == Require(d3, IsFloat(lat) /\ IsFloat(lon))
             d5 == External(d4, Ev("call", "MISSION_ITEM_INT", <<>>, lat \o <<"/">> \o lon), failAt)
             d6 == Require(d5, IsInt(next_id))
         IN  External(d6, Ev("call", "MISSION_SET_CURRENT", <<>>, next_id), failAt)

\* DoOutputRestTime without the "global REST_TIME_DATA_OUT" of main.py:262:
\* the assignment makes a local variable and the global keeps its value
DoOutputRestTime_local(d, text) ==
    IF d.raised \/ ~StartsWith(text, P_output_rest_time) THEN d
    ELSE LET parts == Split(text)
             d1 == Require(Require(d, Len(parts) = 2), IsInt(Tok(parts, 2)))
         IN  IF d1.raised THEN d1
             ELSE [d1 EXCEPT !.events = Append(@, Ev("set", "REST_TIME_DATA_OUT",
                                                     <<ParseInt(Tok(parts, 2))>>, <<>>))]

\* main.py:259-263
DoOutputRestTime(d, text) ==
    IF d.raised \/ ~StartsWith(text, P_output_rest_time) THEN d
    ELSE LET parts == Split(text)
             d1 == Require(Require(d, Len(parts) = 2), IsInt(Tok(parts, 2)))
         IN  IF d1.raised THEN d1
             ELSE [d1 EXCEPT !.rest_out = ParseInt(Tok(parts, 2)),
                             !.events = Append(@, Ev("set", "REST_TIME_DATA_OUT",
                                                     <<ParseInt(Tok(parts, 2))>>, <<>>))]

\* main.py:264-268
DoInputRestTime(d, text) ==
    IF d.raised \/ ~StartsWith(text, P_input_rest_time) THEN d
    ELSE LET parts == Split(text)
             d1 == Require(Require(d, Len(parts) = 2), IsInt(Tok(parts, 2)))
         IN  IF d1.raised THEN d1
             ELSE [d1 EXCEPT !.rest_in = ParseInt(Tok(parts, 2)),
                             !.events = Append(@, Ev("set", "REST_TIME_DATA_IN",
                                                     <<ParseInt(Tok(parts, 2))>>, <<>>))]

\* main.py:272-281: the COMMAND_LONG for a mode name
ModeMessage(mode) ==
    IF mode = S_manual THEN command_long_message("MAV_CMD_DO_SET_MODE", <<1, 0>>, <<>>)
    ELSE IF mode = S_auto THEN command_long_message("MAV_CMD_DO_SET_MODE", <<1, 10>>, <<>>)
    ELSE IF mode = S_smart_rtl THEN command_long_message("MAV_CMD_DO_SET_MODE", <<1, 12>>, <<>>)
    ELSE IF mode = S_guided THEN command_long_message("MAV_CMD_DO_SET_MODE", <<1, 15>>, <<>>)
    ELSE command_long_message("MAV_CMD_DO_SET_MODE", <<>>, mode)

\* main.py:269-282
DoSetMode(d, text, failAt) ==
    IF d.raised \/ ~StartsWith(text, P_set_mode) THEN d
    ELSE LET parts == Split(text)
         IN  External(Require(d, Len(parts) = 2), ModeMessage(Tok(parts, 2)), failAt)

\* main.py:283-289: the HEARTBEAT query and the append of the report
DoGetMode(d, text, bits, failAt) ==
    IF d.raised \/ ~StartsWith(text, P_get_mode) THEN d
    ELSE AppendEnvelope(External(d, Ev("query", "HEARTBEAT", <<>>, <<>>), failAt),
                        S_mode_report \o IntToStr(bits))

\* DoArm looking for "arm" anywhere in the text instead of at its start, so
\* that "disarm" arms as well
DoArm_anywhere(d, text, failAt) ==
    IF d.raised \/ ~(StartsWith(text, P_arm) \/ StartsWith(text, P_disarm)) THEN d
    ELSE External(d, command_long_message("MAV_CMD_COMPONENT_ARM_DISARM", <<1>>, <<>>), failAt)

\* main.py:291-294
DoArm(d, text, failAt) ==
    IF d.raised \/ ~StartsWith(text, P_arm) THEN d
    ELSE External(d, command_long_message("MAV_CMD_COMPONENT_ARM_DISARM", <<1>>, <<>>), failAt)

\* main.py:295-298
DoDisarm(d, text, failAt) ==
    IF d.raised \/ ~StartsWith(text, P_disarm) THEN d
    ELSE External(d, command_long_message("MAV_CMD_COMPONENT_ARM_DISARM", <<0>>, <<>>), failAt)

\* main.py:299-301
DoSetParam(d, text, failAt) ==
    IF d.raised \/ ~StartsWith(text, P_set_param) THEN d
    ELSE LET parts == Split(text)
             d1 == Require(Require(d, Len(parts) = 3), IsFloat(Tok(parts, 3)))
         IN  set_param(d1, Tok(parts, 2), Tok(parts, 3), failAt)

\* main.py:302-303; decode() and encode("ascii") leave an ASCII text as it is
DoAck(d, text) == AppendEnvelope(d, S_cmd_ack \o text)

\* main.py:209-282, the branches before get_mode
BeforeGetMode(d, text, failAt) ==
    DoSetMode(DoInputRestTime(DoOutputRestTime(DoWaypoint(d, text, failAt), text), text),
              text, failAt)

\* main.py:291-303, the branches after get_mode and the acknowledgment
AfterGetMode(d, text, failAt) ==
    DoAck(DoSetParam(DoDisarm(DoArm(d, text, failAt), text, failAt), text, failAt), text)

\* the record of the state a step of the dispatcher starts from
Entry ==
    [raised |-> FALSE, events |-> events, ncalls |-> 0,
     rest_out |-> REST_TIME_DATA_OUT, rest_in |-> REST_TIME_DATA_IN,
     queue |-> unsent_data, nextId |-> nextId]

\* the globals and the history after a step that ended in d
Commit(d) ==
    /\ unsent_data' = d.queue
    /\ nextId' = d.nextId
    /\ REST_TIME_DATA_OUT' = d.rest_out
    /\ REST_TIME_DATA_IN' = d.rest_in

\* a step that ended in d: either the exception reaches the except clause of
\* main_data_in_loop, or send_data_through_rockblock is called and the
\* dispatcher goes on at position after when it returns
CommitAndDrain(d0, after) ==
    \E d \in {d0} :
        /\ Commit(d)
        /\ IF d.raised
           THEN /\ events' = d.events
                /\ pc_in' = "finally"
                /\ UNCHANGED <<drainVars, open_sers>>
           ELSE /\ events' = Append(d.events, DrainEv)
                /\ pc_in' = after
                /\ CallDrain(d.queue)
                /\ open_sers' = open_sers \cup {"in"}

\* main.py:208-290 or 208-304: deal_with_income_data from its start to its
\* first call of send_data_through_rockblock
Dispatch(failAt, bits) ==
    /\ pc_in = "dispatch"
    /\ \E d \in {BeforeGetMode(Entry, income_data, failAt)} :
          IF ~d.raised /\ StartsWith(income_data, P_get_mode)
          THEN CommitAndDrain(DoGetMode(d, income_data, bits, failAt), "drain1")
          ELSE CommitAndDrain(AfterGetMode(d, income_data, failAt), "drain2")
    /\ UNCHANGED << MESSAGES_ON_MT_QUEUE, envVars, pc_out, income_data,
                    in_retries, delivered, exhausted, poll, out_events >>
    /\ UNCHANGED notServiceVars

\* main.py:291-304: deal_with_income_data after the drain of its get_mode
\* branch
DispatchAfterGetMode(failAt) ==
    /\ pc_in = "dispatch2"
    /\ CommitAndDrain(AfterGetMode(Entry, income_data, failAt), "drain2")
    /\ UNCHANGED << MESSAGES_ON_MT_QUEUE, envVars, pc_out, income_data,
                    in_retries, delivered, exhausted, poll, out_events >>
    /\ UNCHANGED notServiceVars

\* ------------------------------------------------------------------------
\* The program
\* ------------------------------------------------------------------------

\* a task wakes from its asyncio.sleep and runs the try block of its loop up
\* to the first call of the modem
OutStart ==
    \E position \in BOOLEAN, gps2 \in BOOLEAN : OutIteration(position, gps2)

InStart ==
    \E ring_alert_received \in BOOLEAN : PollBegin(ring_alert_received)

\* the task that is running goes on: nothing between the start of an
\* iteration and the await of its finally clause yields to the event loop
Running ==
    \/ OutRest
    \/ \E mo_status \in Statuses, data_in \in Commands \cup {None}, remaining \in Remaining :
          SatelliteTransferIn(mo_status, data_in, remaining)
    \/ \E finalized \in BOOLEAN : SatelliteTransferInRaises(finalized)
    \/ PollReturn
    \/ InRest
    \/ \E failAt \in ExtCalls, bits \in ModeBits : Dispatch(failAt, bits)
    \/ \E failAt \in ExtCalls : DispatchAfterGetMode(failAt)
    \/ DrainNext
    \/ \E mo_status \in Statuses : SatelliteTransferOut(mo_status)
    \/ \E finalized \in BOOLEAN : SatelliteTransferOutRaises(finalized)
    \/ DrainReturn

Next == OutStart \/ InStart \/ Running

Spec == Init /\ [][Next]_vars

\* The scheduling of the event loop (loop.run_forever, main.py:530): every
\* call of the running task returns or raises (the serial port and the HTTP
\* requests have timeouts, main.py:141-142 and 170), so the running task goes
\* on until its sleep; every sleep ends, and a task whose sleep has ended is
\* run when the other one reaches its own sleep.
LiveSpec ==
    /\ Init
    /\ [][Next]_vars
    /\ WF_vars(Running)
    /\ SF_vars(OutStart)
    /\ SF_vars(InStart)

\* ------------------------------------------------------------------------
\* The codec on its own: the self-test of messages.py (messages.py:121-180)
\* with its dicts and the bytes it decodes drawn from the sets below
\* ------------------------------------------------------------------------

\* "Blue Robotics!" (messages.py:175)
S_blue_robotics == <<"B", "l", "u", "e", " ", "R", "o", "b", "o", "t", "i", "c", "s", "!">>

\* a text of n characters: "Blue Robotics!" over and over
Text(n) == [i \in 1..n |-> S_blue_robotics[((i - 1) % Len(S_blue_robotics)) + 1]]

\* the lengths of the texts: empty, the self-test's, and around TEXT_SIZE
TextLengths == {0, Len(S_blue_robotics), TEXT_SIZE - 1} \cup (TEXT_SIZE..(TEXT_SIZE + MaxOver))

\* values given for a 'B' field: in its range, beyond each end, and a float
ByteValues == {PyInt(n) : n \in {0 - 1, 0, 128} \cup (255..(255 + MaxOver))} \cup {PyFloatOf(1)}

\* values given for an 'H' field
ShortValues == {PyInt(n) : n \in {2} \cup (65535..(65535 + MaxOver))}

\* values given for the 'f' fields: ints and floats, negative, and of more
\* than 24 significant bits
LatValues == {PyInt(0), PyFloatOf(22), PyInt(0 - 1), PyInt(2 ^ 24 + 1)}

LonValues == {PyFloatOf(1), PyInt(2 ^ 24 + 3)}

\* messages.py:122-150, global_message: the k-th field has the value k
SelfTestGlobal ==
    [nm \in FieldNames(MESSAGES_global_fields) |->
        PyInt(CHOOSE k \in 1..Len(MESSAGES_global_fields) : MESSAGES_global_fields[k][1] = nm)]

\* a dict without one of its keys
Without(d, key) == [k \in DOMAIN d \ {key} |-> d[k]]

GlobalMessages ==
    { SelfTestGlobal,
      [SelfTestGlobal EXCEPT !.heading = PyFloatOf(1)],
      [SelfTestGlobal EXCEPT !.vdop = PyInt(0 - 1)],
      Without(SelfTestGlobal, "wind_speed") }

\* messages.py:156-160, waypoint_message
WaypointMessages ==
    { [lattitude |-> a, longitude |-> b, holding_time |-> h] :
          a \in LatValues, b \in LonValues, h \in ShortValues }
    \cup { [lattitude |-> PyInt(0), longitude |-> PyInt(1)] }

\* messages.py:166-168, control_message
ControlMessages == { [type |-> v] : v \in ByteValues }

\* messages.py:174-176, message
TextMessages ==
    { [text |-> PyBytes(Text(n))] : n \in TextLengths }
    \cup { [text |-> PyStr(S_blue_robotics)] }

\* the names a dict is tagged with: the registry's and one it does not have
Tags == DOMAIN MESSAGES \cup {"nosuch"}

\* an id no schema has
UNKNOWN_ID == 9

\* the bytes given to a decoding call: the encoding as it is, or with its
\* start byte or id byte changed, cut by a byte, longer by a byte, or cut
\* down to nothing or to its first byte
Alterations ==
    { "none", "start", "id", "start_id", "short", "long", "start_short",
      "id_long", "empty", "one" }

BareAlterations == {"none", "short", "long"}

Alter(data, alteration) ==
    CASE alteration = "none" -> data
      [] alteration = "start" -> [data EXCEPT ![1] = "#"]
      [] alteration = "id" -> [data EXCEPT ![2] = Byte(UNKNOWN_ID)]
      [] alteration = "start_id" -> [data EXCEPT ![1] = "#", ![2] = Byte(UNKNOWN_ID)]
      [] alteration = "short" -> SubSeq(data, 1, Len(data) - 1)
      [] alteration = "long" -> Append(data, Byte(0))
      [] alteration = "start_short" -> SubSeq([data EXCEPT ![1] = "#"], 1, Len(data) - 1)
      [] alteration = "id_long" -> Append([data EXCEPT ![2] = Byte(UNKNOWN_ID)], Byte(0))
      [] alteration = "empty" -> <<>>
      [] OTHER -> SubSeq(data, 1, 1)

\* the self-test starts with one dict
CodecInit ==
    /\ ServiceInit
    /\ codec_pc = "start"
    /\ test_message \in GlobalMessages \cup WaypointMessages \cup ControlMessages \cup TextMessages
    /\ CodecFresh
    /\ sup_pc = "off"
    /\ SupervisorFresh
    /\ LoggerOff

\* messages.py:152, serialize_<name>(message)
SerializeBare(name) ==
    /\ codec_pc = "start"
    /\ schema' = name
    /\ bare' = _serialize(test_message, name)
    /\ codec_pc' = "bare_encoded"
    /\ UNCHANGED << notCodecVars, test_message, bare_received, bare_decoded, wire,
                    received, decoded >>

\* messages.py:152, deserialize_<name>(...) of what serialize_<name> returned
DeserializeBare(alteration) ==
    /\ codec_pc = "bare_encoded"
    /\ ~bare.raised
    /\ bare_received' = Alter(bare.data, alteration)
    /\ bare_decoded' = _deserialize(bare_received', schema)
    /\ codec_pc' = "bare_decoded"
    /\ UNCHANGED << notCodecVars, test_message, schema, bare, wire, received, decoded >>

\* messages.py:153, message['name'] = name
AddName(name) ==
    /\ codec_pc \in {"start", "bare_encoded", "bare_decoded"}
    /\ test_message' = ("name" :> name) @@ test_message
    /\ codec_pc' = "named"
    /\ UNCHANGED << notCodecVars, schema, bare, bare_received, bare_decoded, wire,
                    received, decoded >>

\* messages.py:154, serialize(message)
Serialize ==
    /\ codec_pc \in {"start", "bare_encoded", "bare_decoded", "named"}
    /\ wire' = serialize(test_message)
    /\ codec_pc' = "encoded"
    /\ UNCHANGED << notCodecVars, test_message, schema, bare, bare_received,
                    bare_decoded, received, decoded >>

\* messages.py:154, deserialize(...) of what serialize returned
Deserialize(alteration) ==
    /\ codec_pc = "encoded"
    /\ ~wire.raised
    /\ received' = Alter(wire.data, alteration)
    /\ decoded' = deserialize(received')
    /\ codec_pc' = "decoded"
    /\ UNCHANGED << notCodecVars, test_message, schema, bare, bare_received,
                    bare_decoded, wire >>

CodecNext ==
    \/ \E name \in DOMAIN MESSAGES : SerializeBare(name)
    \/ \E alteration \in BareAlterations : DeserializeBare(alteration)
    \/ \E name \in Tags : AddName(name)
    \/ Serialize
    \/ \E alteration \in Alterations : Deserialize(alteration)

CodecSpec == CodecInit /\ [][CodecNext]_vars

\* ------------------------------------------------------------------------
\* The supervisor (services/supervisor/main.py)
\* ------------------------------------------------------------------------

\* timedelta.seconds is the seconds part of a timedelta, without its days
SECONDS_PER_DAY == 86400

TimedeltaSeconds(from, to) == (to - from) % SECONDS_PER_DAY

\* supervisor/main.py:65-66, tmux kill-session
Service_kill(sess, name) == [sess EXCEPT ![name] = FALSE]

\* supervisor/main.py:68-70, tmux new and send-keys
Service_start(sess, name) == [sess EXCEPT ![name] = TRUE]

\* supervisor/main.py:56-63, service.restart(): whether it raised, the tmux
\* sessions after it, the tmux operations it ran and the seconds it slept.
\* Calling a method the class does not have raises AttributeError.
Service_restart(sess, name) ==
    IF "kill_service" \notin Service_attributes
    THEN [raised |-> TRUE, sessions |-> sess, ran |-> <<>>, slept |-> 0]
    ELSE IF "start_service" \notin Service_attributes
    THEN [raised |-> TRUE, sessions |-> Service_kill(sess, name),
          ran |-> << "kill" >>, slept |-> 10]
    ELSE [raised |-> FALSE,
          sessions |-> Service_start(Service_kill(sess, name), name),
          ran |-> << "kill", "start" >>, slept |-> 20]

\* no restart was asked for
NoRestart(sess) == [raised |-> FALSE, sessions |-> sess, ran |-> <<>>, slept |-> 0]

\* what requests.get(service.status_url) and response.json() can give:
\* an exception (nothing answers, a timeout, a body without the key), or
\* a secondsSinceLastHeartbeat at, below or above the threshold
Unreachable == [reached |-> FALSE, secondsSinceLastHeartbeat |-> 0]

Responses(service) ==
    { Unreachable } \cup
    { [reached |-> TRUE, secondsSinceLastHeartbeat |-> n] :
        n \in { 0, service.seconds_off_before_killing,
                service.seconds_off_before_killing + 1 } }

\* supervisor/main.py:141-144 and 91-93: main() starts every service
SupStart ==
    /\ sup_pc = "start"
    /\ sessions' = [name \in ServiceNames |-> TRUE]
    /\ sup_pc' = "rest"
    /\ UNCHANGED << notSupervisorVars, sup_service, utc_time_last_reach,
                    utcnow, sup_checks >>

\* supervisor/main.py:95-99: the rest before a cycle of checks
SupRest ==
    /\ sup_pc = "rest"
    /\ utcnow < MaxCycles * REST_TIME_SERVICES_CHECK
    /\ utcnow' = utcnow + REST_TIME_SERVICES_CHECK
    /\ sup_service' = 1
    /\ sup_pc' = "check"
    /\ UNCHANGED << notSupervisorVars, sessions, utc_time_last_reach,
                    sup_checks >>

\* supervisor/main.py:99-125: the check of one service
SupCheck(response) ==
    /\ sup_pc = "check"
    /\ LET service == services[sup_service]
           name == service.name
           last_reach ==
               IF response.reached THEN utcnow ELSE utc_time_last_reach[name]
           no_heartbeats_for_too_long ==
               /\ response.reached
               /\ response.secondsSinceLastHeartbeat
                      > service.seconds_off_before_killing
           seconds_since_last_reachable == TimedeltaSeconds(last_reach, utcnow)
           unreachable_for_too_long ==
               seconds_since_last_reachable > service.seconds_off_before_killing
           result ==
               IF no_heartbeats_for_too_long \/ unreachable_for_too_long
               THEN Service_restart(sessions, name)
               ELSE NoRestart(sessions)
       IN  /\ response \in Responses(service)
           /\ response.reached => sessions[name]
           /\ utc_time_last_reach' =
                  [utc_time_last_reach EXCEPT ![name] = last_reach]
           /\ sessions' = result.sessions
           /\ utcnow' = utcnow + result.slept
           /\ sup_checks' =
                  [sup_checks EXCEPT ![name] =
                      [checked |-> TRUE,
                       no_heartbeats_for_too_long |-> no_heartbeats_for_too_long,
                       unreachable_for_too_long |-> unreachable_for_too_long,
                       ran |-> result.ran,
                       raised |-> result.raised]]
    /\ IF sup_service < Len(services)
       THEN sup_service' = sup_service + 1 /\ UNCHANGED sup_pc
       ELSE sup_service' = 1 /\ sup_pc' = "rest"
    /\ UNCHANGED notSupervisorVars

SupInit ==
    /\ ServiceInit
    /\ codec_pc = "off"
    /\ test_message = <<>>
    /\ CodecFresh
    /\ sup_pc = "start"
    /\ SupervisorFresh
    /\ LoggerOff

SupNext ==
    \/ SupStart
    \/ SupRest
    \/ \E response \in Responses(services[sup_service]) : SupCheck(response)

SupervisorSpec == SupInit /\ [][SupNext]_vars

\* ------------------------------------------------------------------------
\* The data logger's functions (services/data_logger/main.py) and their
\* tests (services/data_logger/test.py)
\* ------------------------------------------------------------------------

\* data_logger/main.py:17, parent_key: False, or the key given
NoParentKey == [given |-> FALSE, key |-> ""]

ParentKey(key) == [given |-> TRUE, key |-> key]

\* data_logger/main.py:21, "if parent_key": False and '' are both false
Truthy(parent_key) == parent_key.given /\ parent_key.key # ""

\* data_logger/main.py:30, dict(items): a later item replaces the value of
\* an earlier item with the same key
RECURSIVE dict(_)
dict(items) ==
    IF items = <<>> THEN <<>>
    ELSE LET front == dict(SubSeq(items, 1, Len(items) - 1))
             last == items[Len(items)]
         IN  IF \E i \in DOMAIN front : front[i][1] = last[1]
             THEN [i \in DOMAIN front |->
                      IF front[i][1] = last[1] THEN last ELSE front[i]]
             ELSE Append(front, last)

\* data_logger/main.py:21
new_key(parent_key, key, separator) ==
    IF Truthy(parent_key) THEN parent_key.key \o separator \o key ELSE key

\* data_logger/main.py:19-30: flatten_items is the list items built by the
\* for loop of line 20 from its k-th item on, flatten_list the items the
\* loop of line 25 adds from the k-th element on
RECURSIVE flatten_items(_, _, _, _), flatten_list(_, _, _)
flatten_items(pairs, parent_key, separator, k) ==
    IF k > Len(pairs) THEN <<>>
    ELSE LET key == pairs[k][1]
             value == pairs[k][2]
             nk == new_key(parent_key, key, separator)
             added ==
                 CASE value.kind = "dict" ->
                          dict(flatten_items(value.items, ParentKey(nk), separator, 1))
                   [] value.kind = "list" ->
                          flatten_list(value.items, ParentKey(nk), 1)
                   [] OTHER -> << << nk, value >> >>
         IN  added \o flatten_items(pairs, parent_key, separator, k + 1)

flatten_list(elements, parent_key, k) ==
    IF k > Len(elements) THEN <<>>
    ELSE dict(flatten_items(<< << ToString(k - 1), elements[k][2] >> >>,
                            parent_key, ".", 1))
         \o flatten_list(elements, parent_key, k + 1)

\* data_logger/main.py:17-30, flatten_dict(dictionary): .items() of
\* anything but a dict raises AttributeError
flatten_dict(dictionary) ==
    IF dictionary.kind # "dict" THEN Raised("AttributeError")
    ELSE Returned(JDict(dict(flatten_items(dictionary.items, NoParentKey, ".", 1))))

\* data_logger/main.py:185-193
Whitelist ==
    << "cpu", "disk", "network", "memory", "temperature", "unix_time_seconds" >>

system_information_filter_all(data) ==
    IF data.kind # "dict" THEN Raised("AttributeError") ELSE Returned(data)

system_information_filter(data) ==
    IF data.kind # "dict" THEN Raised("AttributeError")
    ELSE Returned(JDict([i \in DOMAIN Whitelist |->
                            << Whitelist[i], Get(data, Whitelist[i]) >>]))

\* data_logger/main.py:33, the parameters of data_gathering and those
\* without a default
data_gathering_parameters == { "service_name", "url", "timeout" }

data_gathering_required == { "service_name", "url" }

\* data_logger/main.py:33-43, data_gathering called with these keyword
\* arguments while requests.get behaves as response says.  A keyword that
\* is no parameter, or a missing parameter, raises TypeError at the call.
data_gathering(keywords, response) ==
    IF ~(keywords \subseteq data_gathering_parameters) THEN Raised("TypeError")
    ELSE IF ~(data_gathering_required \subseteq keywords) THEN Raised("TypeError")
    ELSE IF response.raises THEN Returned(JNone)
    ELSE IF response.status_code = 200 /\ response.text # "None"
    THEN LET data == flatten_dict(response.json)
         IN  IF data.raised THEN Returned(JNone) ELSE Returned(data.data)
    ELSE Returned(JNone)

\* the system information document of the tests (test.py:23, 37, 49):
\* the answer of http://127.0.0.1:6030/system
SystemInformation ==
    JDict(<< << "cpu", JList(<< JDict(<< << "name", JLeaf("cpu0") >>,
                                        << "usage", JLeaf("1") >> >>),
                               JDict(<< << "name", JLeaf("cpu1") >>,
                                        << "usage", JLeaf("2") >> >>) >>) >>,
             << "disk", JList(<< JDict(<< << "name", JLeaf("sda") >> >>) >>) >>,
             << "memory", JDict(<< << "ram", JDict(<< << "total", JLeaf("8") >> >>) >> >>) >>,
             << "network", JList(<<>>) >>,
             << "process", JList(<< JDict(<< << "name", JLeaf("init") >> >>) >>) >>,
             << "temperature", JList(<< JLeaf("40"), JLeaf("41") >>) >>,
             << "unix_time_seconds", JLeaf("5") >> >>)

\* the items of a dict whose key is in keys, in their order
RECURSIVE Restrict(_, _)
Restrict(items, keys) ==
    IF items = <<>> THEN <<>>
    ELSE LET rest == Restrict(Tail(items), keys)
         IN  IF Head(items)[1] \in keys THEN << Head(items) >> \o rest ELSE rest

TopKeys == { SystemInformation.items[i][1] : i \in DOMAIN SystemInformation.items }

\* other JSON documents a service can answer with
OtherDocuments ==
    { JDict(<< << "", JDict(<< << "a", JLeaf("1") >> >>) >>,
               << "a", JLeaf("2") >> >>),
      JDict(<< << "", JList(<< JLeaf("5") >>) >> >>),
      JDict(<< << "a.b", JLeaf("1") >>,
               << "a", JDict(<< << "b", JLeaf("2") >> >>) >> >>),
      JDict(<< << "l", JList(<< JList(<< JLeaf("1"), JLeaf("2") >>),
                                JList(<< JLeaf("3") >>) >>) >>,
               << "n", JNone >>,
               << "d", JDict(<<>>) >> >>),
      JList(<< JLeaf("1") >>) }

Documents ==
    { JDict(Restrict(SystemInformation.items, keys)) : keys \in SUBSET TopKeys }
        \cup OtherDocuments

\* the keyword arguments test.py:58-59 passes, and those main.py:97 passes
Keywords ==
    { { "service_name", "url", "timeout", "filter" },
      { "service_name", "url", "timeout" } }

\* what requests.get gives: an exception, a 404 (test.py:31), a 'None'
\* body, or a JSON document
HttpResponses(doc) ==
    { [raises |-> TRUE, status_code |-> 0, text |-> "", json |-> JNone],
      [raises |-> FALSE, status_code |-> 404, text |-> "None", json |-> JNone],
      [raises |-> FALSE, status_code |-> 200, text |-> "None", json |-> JNone],
      [raises |-> FALSE, status_code |-> 200, text |-> "json", json |-> doc] }

LoggerInit ==
    /\ ServiceInit
    /\ codec_pc = "off"
    /\ test_message = <<>>
    /\ CodecFresh
    /\ sup_pc = "off"
    /\ SupervisorFresh
    /\ logger_pc = "start"
    /\ document \in Documents
    /\ LoggerFresh

\* test.py:39 and 50, system_information_filter(before)
Filter ==
    /\ logger_pc = "start"
    /\ filtered' = system_information_filter(document)
    /\ logger_pc' = "filtered"
    /\ UNCHANGED << notLoggerVars, document, flattened, flat, call, gathered >>

\* test.py:51, flatten_dict(before) of the filtered document, and
\* main.py:39, flatten_dict of the document itself
Flatten ==
    /\ \/ logger_pc = "start" /\ flattened' = document
       \/ logger_pc = "filtered" /\ ~filtered.raised /\ flattened' = filtered.data
    /\ flat' = flatten_dict(flattened')
    /\ logger_pc' = "flat"
    /\ UNCHANGED << notLoggerVars, document, filtered, call, gathered >>

\* test.py:58-59 and main.py:97, data_gathering(...)
Gather(keywords, response) ==
    /\ logger_pc = "start"
    /\ call' = [keywords |-> keywords, response |-> response]
    /\ gathered' = data_gathering(keywords, response)
    /\ logger_pc' = "gathered"
    /\ UNCHANGED << notLoggerVars, document, filtered, flattened, flat >>

LoggerNext ==
    \/ Filter
    \/ Flatten
    \/ \E keywords \in Keywords : \E response \in HttpResponses(document) :
           Gather(keywords, response)

LoggerSpec == LoggerInit /\ [][LoggerNext]_vars

\* ------------------------------------------------------------------------
\* Properties
\* ------------------------------------------------------------------------

\* the envelope of identity i is in unsent_data
InQueue(i) == \E k \in 1..Len(unsent_data) : unsent_data[k].id = i

\* the identities given out so far
Enqueued == {i \in TrackedIds : i < nextId}

\* a drain has run to its end (main.py:92)
DrainEnded == drain_pc = "done"

\* the running drain has just left the while loop of an envelope
VisitEnded == drain_pc = "next" /\ visits # <<>>

\* C1 (no loss): every envelope ever enqueued is still in unsent_data or
\* has itself been transmitted with status <= 5; none leaves the list without
\* a successful send of that same envelope.
C1_NoLoss == \A i \in Enqueued : InQueue(i) \/ i \in delivered

\* C2 (no duplication): an envelope that was transmitted with status <= 5
\* is no longer in unsent_data and is not handed to the modem again.
C2_NoDuplication ==
    /\ \A i \in delivered : ~InQueue(i)
    /\ drain_pc = "attempt" => data_package.id \notin delivered

\* C3 (LIFO send order): a drain visits the envelopes of the list it
\* started from in the reverse of their enqueue order, all of them by its
\* end, and when no send of the drain failed the list is empty at its end.
C3_LifoOrder ==
    /\ drain_pc # "idle" =>
          /\ Len(visits) <= Len(drainStart)
          /\ \A k \in 1..Len(visits) : visits[k] = drainStart[Len(drainStart) + 1 - k]
    /\ DrainEnded => Len(visits) = Len(drainStart)
    /\ (DrainEnded /\ ~sawFailure) => unsent_data = <<>>

\* C3 witness: B was enqueued after A, every send succeeded, B went first and
\* the drain ended with an empty list.
C3_Witness ==
    /\ DrainEnded
    /\ ~sawFailure
    /\ Len(drainStart) = 2
    /\ drainStart[1] # drainStart[2]
    /\ visits = <<drainStart[2], drainStart[1]>>
    /\ unsent_data = <<>>

\* C4 (retry bound): the sends of a visited envelope stop at the first
\* status <= 5 or after exactly max_retries attempts; the envelope stays at
\* its place in the list while its attempts fail and the successful attempt
\* removes it (in particular on the 10th attempt after 9 failures).
C4_RetryBound ==
    /\ drain_pc = "attempt" =>
          /\ retries < max_retries
          /\ tries = retries
          /\ it_index + 1 <= Len(unsent_data)
          /\ unsent_data[it_index + 1] = data_package
    /\ VisitEnded => (lastOk \/ tries = max_retries)
    /\ (VisitEnded /\ lastOk) => Len(unsent_data) = it_index

\* C5 (a stuck envelope does not block the batch): at the end of a drain an
\* envelope whose attempts were used up without success is still in the list,
\* and the drain has gone on to every older envelope.
C5_StuckDoesNotBlock ==
    DrainEnded =>
        /\ \A i \in exhausted \ delivered : InQueue(i)
        /\ Len(visits) = Len(drainStart)

\* C6 (retry across drains): an envelope that used up its attempts in a
\* drain in which every send failed is still in the list and is visited by
\* the next drain, where its attempts are counted from zero again: whatever
\* happened in earlier drains, a visit that ends without success has made
\* exactly max_retries attempts.
C6_RetryAcrossDrains ==
    /\ (DrainEnded /\ ~sawSuccess) => unsent_data = drainStart
    /\ DrainEnded => \A k \in 1..Len(drainStart) :
                         \E j \in 1..Len(visits) : visits[j] = drainStart[k]
    /\ drain_pc = "attempt" => tries = retries /\ retries < max_retries
    /\ (VisitEnded /\ ~lastOk) => tries = max_retries

\* C6 witness: an envelope that used up max_retries in an earlier drain is,
\* in a later drain without any success, on the last attempt of a new full
\* budget.
C6_Witness ==
    /\ drain_pc = "attempt"
    /\ ~sawSuccess
    /\ data_package.id \in exhausted \ delivered
    /\ tries = max_retries - 1

\* C7 (at-least-once delivery), in the form a finite run refutes: at the end
\* of a drain in which no send failed, every envelope enqueued so far has been
\* transmitted with a success status.
C7_AtLeastOnce ==
    (DrainEnded /\ ~sawFailure) => \A i \in Enqueued : i \in delivered

\* the inbound iteration has handled a command (deal_with_income_data has
\* returned or raised)
Handled == pc_in = "finally" /\ income_data # None

\* the acknowledgment of the command being handled
Ack == S_cmd_ack \o income_data

\* positions of events with the append of the acknowledgment
AckAppends == {k \in 1..Len(events) : events[k].kind = "append" /\ events[k].text = Ack}

\* positions of events with an append
Appends == {k \in 1..Len(events) : events[k].kind = "append"}

\* positions of events with an external request or a change of a rest interval
SideEffects == {k \in 1..Len(events) : events[k].kind \in {"call", "query", "set"}}

\* C8 (always acknowledged): after handling any inbound command the
\* dispatcher has appended exactly one acknowledgment "cmd_ack:<text>" and
\* has then called the drain.
C8_AlwaysAck ==
    Handled =>
        /\ Cardinality(AckAppends) = 1
        /\ \A k \in AckAppends : \E j \in (k + 1)..Len(events) : events[j].kind = "drain"

\* the verbs of the command table
SupportedVerbs ==
    { P_waypoint, P_output_rest_time, P_input_rest_time, P_set_mode, P_get_mode,
      P_arm, P_disarm, P_set_param }

\* the first colon-separated token of a command text
Verb(text) == Split(text)[1]

\* C9 (unknown verb): for a command whose first token is not a supported
\* verb the dispatcher makes no external call and changes no rest interval,
\* and appends one acknowledgment.
C9_UnknownVerb ==
    (Handled /\ Verb(income_data) \notin SupportedVerbs) =>
        /\ SideEffects = {}
        /\ Cardinality(AckAppends) = 1

\* the command being handled is "set_mode:<mode>"
IsSetMode ==
    /\ income_data # None
    /\ Len(Split(income_data)) = 2
    /\ Verb(income_data) = P_set_mode

\* C10 (set_mode): for "set_mode:<mode>" the dispatcher makes exactly one
\* external call, the mode change for that mode, and appends exactly one
\* envelope, the acknowledgment.
C10_SetMode ==
    (Handled /\ IsSetMode) =>
        /\ Cardinality(SideEffects) = 1
        /\ \A k \in SideEffects : events[k] = ModeMessage(Split(income_data)[2])
        /\ Cardinality(Appends) = 1
        /\ Appends = AckAppends

\* C11 (every queued envelope is an encoding): every element of unsent_data
\* is accepted by deserialize, that is, it starts with the header of a
\* schema of MESSAGES and has the length of that schema.
C11_QueueIsEncoded ==
    \A k \in 1..Len(unsent_data) : ~deserialize(unsent_data[k].data).raised

\* the running poll has left its while loop or never entered it (main.py:122)
PollEnded == pc_in = "polled"

\* C12 (poll attempts a transfer iff a flag is set): a poll that has ended
\* made at least one satellite_transfer call exactly when the ring alert it
\* read or the pending flag it found was set, a poll is inside its while
\* loop only with one of them set, and a poll without attempt returns None.
C12_AttemptIffFlag ==
    /\ PollEnded => ((poll.tries > 0) <=> (poll.ring \/ poll.pending))
    /\ pc_in = "poll_attempt" => (poll.ring \/ poll.pending)
    /\ (PollEnded /\ ~(poll.ring \/ poll.pending)) => income_data = None

\* C12 witness: a poll entered by the pending flag alone, without ring
\* alert, has made an attempt.
C12_Witness ==
    /\ PollEnded
    /\ poll.pending
    /\ ~poll.ring
    /\ poll.tries > 0

\* C13 (retry bound of poll): inside the while loop no attempt has succeeded
\* yet and fewer than max_retries attempts were made; a poll that attempted
\* ends after at most max_retries attempts, either by a status <= 5, and
\* then it returns rb.data_in as read after that attempt, or after exactly
\* max_retries failures, and then it returns None whatever the register holds.
C13_PollRetryBound ==
    /\ pc_in = "poll_attempt" =>
          /\ poll.tries = in_retries
          /\ in_retries < max_retries_in
          /\ ~poll.ok
          /\ income_data = None
    /\ (PollEnded /\ poll.tries > 0) =>
          /\ poll.tries <= max_retries_in
          /\ poll.ok => income_data = poll.data_in
          /\ ~poll.ok => (poll.tries = max_retries_in /\ income_data = None)

\* C13 witness: nine failures, then the 10th attempt succeeds and its
\* message is returned.
C13_Witness ==
    /\ PollEnded
    /\ poll.ok
    /\ poll.tries = max_retries_in
    /\ income_data # None
    /\ income_data = poll.data_in

\* C14 (pending flag): a step changes MESSAGES_ON_MT_QUEUE only if it is a
\* satellite_transfer of poll with status <= 5, after which the flag is
\* (status_pkg[5] > 0); and a poll that begins with the flag set enters its
\* while loop, ring alert or not.  So a poll without attempt or with only
\* failed attempts leaves the flag as it was.
C14_PendingFlag ==
    [][ /\ MESSAGES_ON_MT_QUEUE' # MESSAGES_ON_MT_QUEUE =>
              /\ pc_in = "poll_attempt"
              /\ poll'.tries = poll.tries + 1
              /\ poll'.ok
        /\ (pc_in = "poll_attempt" /\ pc_in' = "polled" /\ poll'.ok) =>
              MESSAGES_ON_MT_QUEUE' = (poll'.remaining > 0)
        /\ (pc_in = "sleep" /\ pc_in' # "sleep" /\ MESSAGES_ON_MT_QUEUE) =>
              pc_in' = "poll_attempt"
      ]_vars

\* C14 witness: a poll entered by the flag alone has used up its attempts
\* and the flag is still set.
C14_Witness ==
    /\ PollEnded
    /\ poll.pending
    /\ ~poll.ring
    /\ ~poll.ok
    /\ poll.tries = max_retries_in
    /\ MESSAGES_ON_MT_QUEUE

\* an iteration of the task has raised and is at its finally clause
OutRaised == pc_out = "finally" /\ \E k \in 1..Len(out_events) : out_events[k] = RaiseEv

InRaised == pc_in = "finally" /\ \E k \in 1..Len(events) : events[k] = RaiseEv

\* C15 (an exception ends no task): a task whose iteration has raised goes
\* to its rest, and each task reaches the finally clause of an iteration
\* again and again, so after every rest it runs a next iteration.
C15_TasksContinue ==
    /\ OutRaised ~> (pc_out = "sleep")
    /\ InRaised ~> (pc_in = "sleep")
    /\ []<>(pc_out = "finally")
    /\ []<>(pc_in = "finally")

\* C15 witness: the inbound iteration raised while it handled a command
\* (in a branch of deal_with_income_data or in its drain) and is about to
\* rest.
C15_Witness ==
    /\ InRaised
    /\ income_data # None
    /\ pc_out = "sleep"

\* the call running in each task has the serial port open
BothOpen == "out" \in open_sers /\ "in" \in open_sers

OutBusy == pc_out = "drain"

InBusy == pc_in \in {"poll_attempt", "polled", "dispatch", "drain1", "dispatch2", "drain2"}

\* C17 (no task blocks on the other): a task that is at the sleep of its
\* finally clause (in the model the sleep may have ended at any moment) can
\* start its next iteration, whether the other task is resting or in the
\* middle of an iteration.
C17_NoBlocking ==
    /\ (pc_out = "sleep" /\ (pc_in = "sleep" \/ InBusy)) => ENABLED OutStart
    /\ (pc_in = "sleep" /\ (pc_out = "sleep" \/ OutBusy)) => ENABLED InStart

\* C18 (transport released after use): once the drain or the poll of an
\* iteration has ended, normally or through an error raised by a transfer,
\* the handle it opened is closed: a task that is past its transfer session
\* holds no open handle, no handle is left behind without an owner, and no
\* handle at all is open while both tasks rest.
C18_TransportReleased ==
    /\ "lost" \notin open_sers
    /\ pc_out \in {"finally", "sleep"} => "out" \notin open_sers
    /\ pc_in \in {"finally", "sleep"} => "in" \notin open_sers
    /\ (pc_out = "sleep" /\ pc_in = "sleep") => open_sers = {}

\* C19 (an outbound iteration appends, then drains): when an iteration of
\* the outbound task reaches its finally clause, where it rests, it has
\* appended one encoded global envelope to the queue and after that run a
\* drain, and while its drain runs the append has already been made.
C19_AppendThenDrain ==
    /\ pc_out = "finally" =>
          /\ Len(out_events) >= 2
          /\ out_events[1].kind = "append"
          /\ out_events[2] = DrainEv
          /\ \A k \in 2..Len(out_events) : out_events[k].kind # "append"
    /\ pc_out = "drain" =>
          /\ Len(out_events) = 2
          /\ out_events[1].kind = "append"
          /\ out_events[2] = DrainEv

\* C20 (keys of the global message match the schema): once the outbound
\* task has built its message in an iteration, the keys of the message it
\* passed to serialize, the schema-name tag apart, are the field names of
\* the global schema: none is missing and none is extra, whatever the
\* sensors returned.
C20_KeysMatchSchema ==
    pc_out \in {"drain", "finally"} =>
        \A position, gps2 \in BOOLEAN :
            DOMAIN global_message(position, gps2) \ {"name"} = FieldNames(MESSAGES_global_fields)

\* ------------------------------------------------------------------------
\* Properties of the codec
\* ------------------------------------------------------------------------

\* a positive integer without its trailing zero bits
RECURSIVE OddPart(_)
OddPart(m) == IF m % 2 = 0 THEN OddPart(m \div 2) ELSE m

\* a value the wire type of a field represents exactly: an int of the range
\* of 'B' or 'H', a number of at most 24 significant bits for 'f', TEXT_SIZE
\* bytes for '40s'
Representable(field, value) ==
    CASE field = "B" -> value.kind = "int" /\ value.n \in 0..255
      [] field = "H" -> value.kind = "int" /\ value.n \in 0..65535
      [] field = "f" -> IsNumber(value) /\ (value.n = 0 \/ OddPart(Abs(value.n)) < 2 ^ 24)
      [] OTHER -> value.kind = "bytes" /\ Len(value.s) = TEXT_SIZE

\* the dict v, its name tag apart, conforms to the fields of the schema
Conforms(v, name) ==
    /\ DOMAIN v \ {"name"} = FieldNames(MESSAGES[name].fields)
    /\ \A k \in 1..Len(MESSAGES[name].fields) :
          Representable(MESSAGES[name].fields[k][2], v[MESSAGES[name].fields[k][1]])

\* the dict under test is tagged with a schema of the registry
Tagged == "name" \in DOMAIN test_message /\ test_message.name \in DOMAIN MESSAGES

\* Python's == of two dicts that carry a name tag
DictEq(a, b) ==
    /\ DOMAIN a = DOMAIN b
    /\ a.name = b.name
    /\ \A k \in DOMAIN a \ {"name"} : PyEq(a[k], b[k])

\* deserialize was given the bytes serialize returned
DecodedAsSent == codec_pc = "decoded" /\ received = wire.data

\* C21 (round trip): for a dict that conforms to the fields of its schema,
\* serialize returns, and deserialize of the bytes it returned gives a dict
\* equal to the dict with its name tag.
C21_RoundTrip ==
    /\ (codec_pc \in {"encoded", "decoded"} /\ Tagged /\ Conforms(test_message, test_message.name))
          => ~wire.raised
    /\ (DecodedAsSent /\ Tagged /\ Conforms(test_message, test_message.name))
          => (~decoded.raised /\ DictEq(decoded.result, test_message))

\* a waypoint with a float and an int in its float32 fields made the round trip
C21_Witness ==
    /\ DecodedAsSent
    /\ Tagged
    /\ test_message.name = "waypoint"
    /\ Conforms(test_message, "waypoint")
    /\ test_message.lattitude = PyFloatOf(22)
    /\ test_message.longitude = PyFloatOf(1)
    /\ test_message.holding_time = PyInt(65535)
    /\ decoded.result.lattitude = PyFloatOf(22)

\* C22 (decode adds the schema name): the dict a decoding call returns has
\* the key 'name', for deserialize and for deserialize_<name> alike.
C22_NameAdded ==
    /\ (codec_pc = "decoded" /\ ~decoded.raised) => "name" \in DOMAIN decoded.result
    /\ (codec_pc = "bare_decoded" /\ ~bare_decoded.raised) => "name" \in DOMAIN bare_decoded.result

\* the schema of the registry that has the id of byte 1 of the bytes decoded
SchemaOfId(data) == CHOOSE n \in DOMAIN MESSAGES : data[2] = Byte(MESSAGES[n].id)

\* C22 as amended: the dict deserialize returns has the fields of the
\* schema of the id byte and the key 'name' with the name of that schema;
\* the dict deserialize_<name> returns has the fields of the schema and no
\* other key.
C22_NameAddedByHeaderDecode ==
    /\ (codec_pc = "decoded" /\ ~decoded.raised) =>
          /\ "name" \in DOMAIN decoded.result
          /\ decoded.result.name = SchemaOfId(received)
          /\ DOMAIN decoded.result \ {"name"} = FieldNames(MESSAGES[SchemaOfId(received)].fields)
    /\ (codec_pc \in {"bare_decoded", "named", "encoded", "decoded"} /\ bare_received # <<>>
            /\ ~bare_decoded.raised) =>
          DOMAIN bare_decoded.result = FieldNames(MESSAGES[schema].fields)

\* both decoding calls returned a dict for a control message
C22_Witness ==
    /\ codec_pc = "decoded"
    /\ ~decoded.raised
    /\ decoded.result.name = "control"
    /\ schema = "control"
    /\ bare_received # <<>>
    /\ ~bare_decoded.raised
    /\ DOMAIN bare_decoded.result = {"type"}

\* byte 1 of the bytes is the id of a schema of the registry
KnownId(data) == \E n \in DOMAIN MESSAGES : data[2] = Byte(MESSAGES[n].id)

\* the total width of the fields of a schema
Width(name) == calcsize(MESSAGES[name].fields, Len(MESSAGES[name].fields))

\* C23 (decode rejects bad input): deserialize raises, and returns no dict,
\* the assertion on the start byte when byte 0 is not '$', whatever the rest
\* is; if not, the assertion on the id when byte 1 is the id of no schema,
\* whatever the length is; if not, struct.error when the number of bytes
\* after the header is not the total width of the schema's fields; bytes
\* that pass the three checks are decoded.
C23_DecodeRejects ==
    codec_pc = "decoded" =>
        /\ decoded.raised => decoded.result = <<>>
        /\ (Len(received) >= 1 /\ received[1] # START) =>
              (decoded.raised /\ decoded.error = "Start byte does not match")
        /\ (Len(received) >= 2 /\ received[1] = START /\ ~KnownId(received)) =>
              (decoded.raised /\ decoded.error = "Message id does not match")
        /\ (Len(received) >= 2 /\ received[1] = START /\ KnownId(received)
               /\ Len(received) - 2 # Width(SchemaOfId(received))) =>
              (decoded.raised /\ decoded.error = "struct.error")
        /\ (Len(received) >= 2 /\ received[1] = START /\ KnownId(received)
               /\ Len(received) - 2 = Width(SchemaOfId(received))) => ~decoded.raised
        /\ Len(received) < 2 => decoded.raised

\* bytes with a wrong start byte, an unknown id and a wrong length were
\* rejected for their start byte
C23_Witness ==
    /\ codec_pc = "decoded"
    /\ Len(received) >= 2
    /\ received[1] # START
    /\ ~KnownId(received)
    /\ decoded.raised
    /\ decoded.error = "Start byte does not match"

\* the dict v lacks a field of the schema
MissingField(v, name) == \E nm \in FieldNames(MESSAGES[name].fields) : nm \notin DOMAIN v

\* pack takes every value the dict v has for a field of the schema
AllPackable(v, name) ==
    \A k \in 1..Len(MESSAGES[name].fields) :
        MESSAGES[name].fields[k][1] \in DOMAIN v =>
            PackOk(MESSAGES[name].fields[k][2], v[MESSAGES[name].fields[k][1]])

\* serialize has been called with the dict under test
Encoded == codec_pc \in {"encoded", "decoded"}

\* serialize_<schema> has been called with the dict under test
BareEncoded == codec_pc = "bare_encoded"

Ids == { MESSAGES[n].id : n \in DOMAIN MESSAGES }

\* the registry but for the number of its fields: four schemas, their ids
\* unique and in 1..255, global 1, waypoint 2, control 3, message 4
RegistryIds ==
    /\ DOMAIN MESSAGES = {"global", "waypoint", "control", "message"}
    /\ Cardinality(Ids) = Cardinality(DOMAIN MESSAGES)
    /\ Ids \subseteq 1..255
    /\ MESSAGES["global"].id = 1
    /\ MESSAGES["waypoint"].id = 2
    /\ MESSAGES["control"].id = 3
    /\ MESSAGES["message"].id = 4

\* a dict that deserialize returned for the schema has count fields
HasFields(name, count) ==
    (codec_pc = "decoded" /\ ~decoded.raised /\ decoded.result.name = name) =>
        Cardinality(DOMAIN decoded.result \ {"name"}) = count

\* C25 (the registry): four schemas with unique names and unique ids in
\* 1..255: global with id 1 and 26 fields, waypoint with id 2 and 3 fields,
\* control with id 3 and 1 field, message with id 4 and 1 field of 40 bytes.
C25_Registry ==
    /\ RegistryIds
    /\ HasFields("global", 26)
    /\ HasFields("waypoint", 3)
    /\ HasFields("control", 1)
    /\ HasFields("message", 1)
    /\ Width("message") = 40

\* C25 as amended: the same, with 27 fields for global.
C25_RegistryOf27 ==
    /\ RegistryIds
    /\ HasFields("global", 27)
    /\ HasFields("waypoint", 3)
    /\ HasFields("control", 1)
    /\ HasFields("message", 1)
    /\ Width("message") = 40

\* deserialize returned the dict of a global message
C25_Witness ==
    /\ DecodedAsSent
    /\ ~decoded.raised
    /\ decoded.result.name = "global"
    /\ decoded.result.wind_angle = PyInt(19)
    /\ decoded.result.hdop = PyInt(27)

\* the bytes of data at the place of the k-th field of a schema, after a
\* header of h bytes: the fields before it take the sum of their widths
Slot(data, name, k, h) ==
    SubSeq(data, h + calcsize(MESSAGES[name].fields, k - 1) + 1,
                 h + calcsize(MESSAGES[name].fields, k))

\* C26 (wire layout): the bytes serialize returns are '$', the id of the
\* schema, then the fields in the order of the schema, each at the offset
\* the widths of the fields before it give and of its own width (1, 2, 4 or
\* 40 bytes), so 2 plus the total width in all; the bytes serialize_<name>
\* returns for the same dict are the same without the first two.
C26_WireLayout ==
    /\ (Encoded /\ ~wire.raised) =>
          /\ wire.data[1] = "$"
          /\ wire.data[2] = Byte(MESSAGES[test_message.name].id)
          /\ Len(wire.data) = 2 + Width(test_message.name)
          /\ \A k \in 1..Len(MESSAGES[test_message.name].fields) :
                /\ FieldSize(MESSAGES[test_message.name].fields[k][2]) \in {1, 2, 4, 40}
                /\ Slot(wire.data, test_message.name, k, 2) =
                      Pack(MESSAGES[test_message.name].fields[k][2],
                           test_message[MESSAGES[test_message.name].fields[k][1]])
    /\ (Encoded /\ ~wire.raised /\ schema = test_message.name /\ ~bare.raised) =>
          bare.data = SubSeq(wire.data, 3, Len(wire.data))
    /\ (codec_pc = "bare_encoded" /\ ~bare.raised) =>
          /\ Len(bare.data) = Width(schema)
          /\ \A k \in 1..Len(MESSAGES[schema].fields) :
                Slot(bare.data, schema, k, 0) =
                    Pack(MESSAGES[schema].fields[k][2], test_message[MESSAGES[schema].fields[k][1]])

\* a waypoint was encoded without and with its header: 10 and 12 bytes
C26_Witness ==
    /\ Encoded
    /\ ~wire.raised
    /\ test_message.name = "waypoint"
    /\ schema = "waypoint"
    /\ ~bare.raised
    /\ Len(bare.data) = 10
    /\ Len(wire.data) = 12
    /\ test_message.holding_time = PyInt(65535)
    /\ SubSeq(wire.data, 11, 12) = <<Byte(255), Byte(255)>>

\* the dict under test is a control dict whose type is an int, or a
\* waypoint dict of numbers whose holding_time is an int
IntegerGiven ==
    /\ Tagged
    /\ \/ /\ test_message.name = "control"
          /\ DOMAIN test_message = {"name", "type"}
          /\ test_message.type.kind = "int"
       \/ /\ test_message.name = "waypoint"
          /\ DOMAIN test_message = {"name", "lattitude", "longitude", "holding_time"}
          /\ test_message.holding_time.kind = "int"

\* C27 (integers are coerced into the range of the wire type): serialize
\* takes any int for an unsigned-byte or unsigned-int16 field, also one
\* outside 0..255 or 0..65535, and deserialize of what it returned gives a
\* value of the range of the wire type.
C27_Coerces ==
    /\ (Encoded /\ IntegerGiven) => ~wire.raised
    /\ (DecodedAsSent /\ IntegerGiven /\ test_message.name = "control") =>
          (~decoded.raised /\ decoded.result.type.n \in 0..255)
    /\ (DecodedAsSent /\ IntegerGiven /\ test_message.name = "waypoint") =>
          (~decoded.raised /\ decoded.result.holding_time.n \in 0..65535)

\* the dict under test is a message dict whose text is a bytes object
BytesGiven ==
    /\ DOMAIN test_message \ {"name"} = {"text"}
    /\ test_message.text.kind = "bytes"

\* the 40 bytes of the text b on the wire: b[i] where b has an i-th byte,
\* zero after its end
OnWire(data, b) ==
    /\ Len(data) = 40
    /\ \A i \in 1..40 : data[i] = IF i <= Len(b) THEN b[i] ELSE Byte(0)

\* C28 (fixed-length string): the text of a message takes exactly 40 bytes
\* on the wire, with and without header, whatever its length: a shorter one
\* is followed by zero bytes, a longer one is cut to its first 40 bytes; and
\* decoding returns exactly these 40 bytes.
C28_FixedString ==
    /\ (Encoded /\ Tagged /\ test_message.name = "message" /\ BytesGiven) =>
          /\ ~wire.raised
          /\ OnWire(SubSeq(wire.data, 3, Len(wire.data)), test_message.text.s)
    /\ (DecodedAsSent /\ Tagged /\ test_message.name = "message" /\ BytesGiven) =>
          /\ ~decoded.raised
          /\ decoded.result.text.kind = "bytes"
          /\ OnWire(decoded.result.text.s, test_message.text.s)
    /\ (codec_pc \in {"bare_encoded", "bare_decoded"} /\ schema = "message" /\ BytesGiven) =>
          /\ ~bare.raised
          /\ OnWire(bare.data, test_message.text.s)
    /\ (codec_pc = "bare_decoded" /\ schema = "message" /\ BytesGiven
            /\ bare_received = bare.data) =>
          /\ ~bare_decoded.raised
          /\ bare_decoded.result.text.kind = "bytes"
          /\ OnWire(bare_decoded.result.text.s, test_message.text.s)

\* a text of 41 bytes was encoded and decoded: its first 40 bytes came back
C28_Witness ==
    /\ DecodedAsSent
    /\ Tagged
    /\ test_message.name = "message"
    /\ BytesGiven
    /\ Len(test_message.text.s) = 41
    /\ ~decoded.raised
    /\ decoded.result.text.s = SubSeq(test_message.text.s, 1, 40)

\* ------------------------------------------------------------------------
\* Properties of the dispatcher, continued
\* ------------------------------------------------------------------------

\* the dispatcher has run for a waypoint command, up to its drain or to the
\* end of the iteration
WaypointHandled ==
    /\ pc_in \in {"drain2", "finally"}
    /\ income_data # None
    /\ StartsWith(income_data, P_waypoint)

\* positions of events with an external actuator command
CallPositions == {k \in 1..Len(events) : events[k].kind = "call"}

\* the k-th external actuator command of events
NthCall(k) ==
    events[CHOOSE p \in CallPositions : Cardinality({q \in CallPositions : q <= p}) = k]

\* the commands of "waypoint:<lat>:<lon>:<wait_time>:<next_id>", in order
WaypointCalls(text) ==
    << Ev("call", "PARAM_SET", <<>>, S_MISSION_PAUSE_S \o <<"=">> \o Split(text)[4]),
       Ev("call", "MAV_CMD_DO_SET_MODE", <<1, 15>>, <<>>),
       Ev("call", "MISSION_ITEM_INT", <<>>, Split(text)[2] \o <<"/">> \o Split(text)[3]),
       Ev("call", "MISSION_SET_CURRENT", <<>>, Split(text)[5]) >>

\* C29 (order of the waypoint command): the external commands issued for a
\* waypoint command are, in this order, the mission pause parameter, the
\* change of mode, the waypoint and the next waypoint (the first ones of
\* them when one raised), and the acknowledgment is appended only after the
\* fourth; when nothing raised all four are issued and the acknowledgment
\* is appended.
C29_WaypointOrder ==
    WaypointHandled =>
        /\ Cardinality(CallPositions) <= 4
        /\ \A k \in 1..Cardinality(CallPositions) : NthCall(k) = WaypointCalls(income_data)[k]
        /\ \A a \in Appends :
              /\ events[a].text = Ack
              /\ Cardinality({p \in CallPositions : p < a}) = 4
        /\ (\A k \in 1..Len(events) : events[k] # RaiseEv) =>
              (Cardinality(CallPositions) = 4 /\ Cardinality(AckAppends) = 1)

\* "waypoint:1:2:3:4" was handled: four commands, then the acknowledgment
C29_Witness ==
    /\ WaypointHandled
    /\ pc_in = "finally"
    /\ income_data = CMD_waypoint
    /\ Cardinality(CallPositions) = 4
    /\ NthCall(4) = Ev("call", "MISSION_SET_CURRENT", <<>>, <<"4">>)
    /\ Cardinality(AckAppends) = 1

\* the command being handled is "<verb>:<n>" with n a number
RestCommand(verb) ==
    /\ income_data # None
    /\ StartsWith(income_data, verb)
    /\ Len(Split(income_data)) = 2
    /\ IsInt(Split(income_data)[2])

\* the n of the command being handled
RestArgument == ParseInt(Split(income_data)[2])

\* the step in which deal_with_income_data runs from its start to the call
\* of the drain that follows the acknowledgment
DispatchStep == pc_in = "dispatch" /\ pc_in' # "dispatch"

\* the queue after the step is the queue before it and the acknowledgment
OnlyAckAppended == unsent_data' = Append(unsent_data, Envelope(Ack, nextId))

\* C30 (rest intervals): handling "output_rest_time:<n>" sets the rest
\* interval of the outbound loop to n and leaves that of the inbound loop,
\* handling "input_rest_time:<n>" does the converse, and either changes the
\* queue by the append of the acknowledgment only; the intervals change in
\* no other step, so the value is the one of the global when the loop
\* concerned next calls the sleep of its finally clause, and the inbound
\* loop, which handled the command, rests for n at the end of that very
\* iteration.
C30_RestTimes ==
    [][ /\ (DispatchStep /\ RestCommand(P_output_rest_time)) =>
              /\ REST_TIME_DATA_OUT' = RestArgument
              /\ REST_TIME_DATA_IN' = REST_TIME_DATA_IN
              /\ OnlyAckAppended
        /\ (DispatchStep /\ RestCommand(P_input_rest_time)) =>
              /\ REST_TIME_DATA_IN' = RestArgument
              /\ REST_TIME_DATA_OUT' = REST_TIME_DATA_OUT
              /\ OnlyAckAppended
        /\ REST_TIME_DATA_OUT' # REST_TIME_DATA_OUT =>
              (DispatchStep /\ RestCommand(P_output_rest_time))
        /\ REST_TIME_DATA_IN' # REST_TIME_DATA_IN =>
              (DispatchStep /\ RestCommand(P_input_rest_time))
        /\ (pc_in = "finally" /\ pc_in' = "sleep" /\ RestCommand(P_input_rest_time)) =>
              REST_TIME_DATA_IN = RestArgument ]_vars

\* the outbound loop is at the sleep of its finally clause after
\* "output_rest_time:5" was handled: it rests for 5, the inbound loop still
\* for 10
C30_Witness ==
    /\ pc_out = "finally"
    /\ pc_in = "sleep"
    /\ REST_TIME_DATA_OUT = 5
    /\ REST_TIME_DATA_IN = REST_TIME_DATA_IN_DEFAULT

\* ------------------------------------------------------------------------
\* The supervisor's restarts
\* ------------------------------------------------------------------------

\* the last check of the service found it without a heartbeat, or out of
\* reach, for longer than its threshold
RestartDue(name) ==
    /\ sup_checks[name].checked
    /\ \/ sup_checks[name].no_heartbeats_for_too_long
       \/ sup_checks[name].unreachable_for_too_long

\* C31: a check that finds a service without a heartbeat, or unreachable,
\* for longer than the service's threshold kills the service's tmux
\* session and then starts it again.
C31_Restarted ==
    \A name \in ServiceNames :
        RestartDue(name) =>
            /\ sup_checks[name].ran = << "kill", "start" >>
            /\ sessions[name]

\* ------------------------------------------------------------------------
\* The data logger's functions
\* ------------------------------------------------------------------------

\* the keys of a dict
KeysOf(dictionary) == { dictionary.items[i][1] : i \in DOMAIN dictionary.items }

\* the leaves of a nested structure of dicts and lists, each with the path
\* that leads to it: dict keys, and list indexes from 0
RECURSIVE LeavesAt(_, _)
LeavesAt(value, path) ==
    CASE value.kind = "dict" ->
             UNION { LeavesAt(value.items[i][2], Append(path, value.items[i][1])) :
                       i \in DOMAIN value.items }
      [] value.kind = "list" ->
             UNION { LeavesAt(value.items[i][2], Append(path, ToString(i - 1))) :
                       i \in DOMAIN value.items }
      [] OTHER -> { << path, value >> }

\* the parts of a path joined with '.'
RECURSIVE Joined(_)
Joined(path) ==
    IF Len(path) = 1 THEN path[1]
    ELSE Joined(SubSeq(path, 1, Len(path) - 1)) \o "." \o path[Len(path)]

\* the call of data_gathering was answered with status 200 and a JSON
\* object as body
AnsweredWithObject ==
    /\ logger_pc = "gathered"
    /\ ~call.response.raises
    /\ call.response.status_code = 200
    /\ call.response.text # "None"
    /\ call.response.json.kind = "dict"

\* C32: data_gathering called with service_name, url, timeout and filter,
\* and answered with status 200 and a JSON body, does not raise and
\* returns the flattened body, a dict in which the name of the first cpu
\* of the body is under the key 'cpu.0.name'.
C32_GathersFlattened ==
    (AnsweredWithObject /\ "filter" \in call.keywords) =>
        /\ ~gathered.raised
        /\ gathered.data.kind = "dict"
        /\ HasKey(call.response.json, "cpu") =>
               Get(gathered.data, "cpu.0.name") = JLeaf("cpu0")

\* C33: flatten_dict gives one entry for every leaf of the nested
\* structure: its key is the path to the leaf, dict keys and list indexes
\* joined with '.', and its value is the leaf.
C33_FlattenedByPath ==
    (logger_pc = "flat" /\ ~flat.raised) =>
        /\ \A leaf \in LeavesAt(flattened, <<>>) :
               /\ HasKey(flat.data, Joined(leaf[1]))
               /\ Get(flat.data, Joined(leaf[1])) = leaf[2]
        /\ Len(flat.data.items) = Cardinality(LeavesAt(flattened, <<>>))

\* the six keys of the whitelist
WhitelistedKeys ==
    { "cpu", "disk", "network", "memory", "temperature", "unix_time_seconds" }

\* C34: system_information_filter returns a dict whose keys are exactly the
\* six whitelisted keys, each with the value the input has for that key;
\* no other key of the input, such as 'process', is in the result.
C34_Whitelisted ==
    (logger_pc = "filtered" /\ ~filtered.raised) =>
        /\ KeysOf(filtered.data) = WhitelistedKeys
        /\ Len(filtered.data.items) = 6
        /\ \A key \in WhitelistedKeys :
               HasKey(document, key) =>
                   Get(filtered.data, key) = Get(document, key)
        /\ \A key \in KeysOf(document) \ WhitelistedKeys :
               ~HasKey(filtered.data, key)

\* the filter was given a document that has whitelisted keys, 'process',
\* and lacks other whitelisted keys
C34_Witness ==
    /\ logger_pc = "filtered"
    /\ ~filtered.raised
    /\ HasKey(document, "process")
    /\ HasKey(document, "cpu")
    /\ ~HasKey(document, "disk")
    /\ Get(filtered.data, "cpu") = Get(SystemInformation, "cpu")

\* ------------------------------------------------------------------------
\* The inbound iteration: from the poll to the dispatcher
\* ------------------------------------------------------------------------

\* deal_with_income_data is running: at its start, in one of its drains or
\* between them
Dispatching == pc_in \in {"dispatch", "drain1", "dispatch2", "drain2"}

\* C35: in an inbound iteration deal_with_income_data is called exactly
\* when the poll returned a message, that is when an attempt had a status
\* <= 5 and rb.data_in was not None; it is called with that message and
\* once.  An iteration whose poll made no attempt, failed in every attempt
\* or received nothing ends without a dispatch, an append or a drain.
C35_DispatchIffMessage ==
    [][ /\ (pc_in = "polled" /\ pc_in' # "polled") =>
               /\ (pc_in' = "dispatch") <=> (poll.ok /\ poll.data_in # None)
               /\ pc_in' = "dispatch" => income_data' = poll.data_in
               /\ pc_in' # "dispatch" =>
                      /\ pc_in' = "finally"
                      /\ events' = <<>>
                      /\ unsent_data' = unsent_data
                      /\ drain_pc' = drain_pc
        /\ (pc_in # "polled" /\ pc_in' = "dispatch") => pc_in = "dispatch"
        /\ Dispatching => income_data' = income_data
        /\ (pc_in = "finally" /\ income_data = None) =>
               \A k \in 1..Len(events) : events[k].kind = "raise"
      ]_vars

\* C35 witness: a poll returned a message and the dispatcher has handled
\* it and appended to the queue.
C35_Witness ==
    /\ pc_in = "finally"
    /\ income_data = CMD_arm
    /\ Appends # {}

\* C36: for the command "get_mode" the dispatcher appends exactly two
\* envelopes, the mode report and then the acknowledgment
\* "cmd_ack:get_mode", calls the drain right after each append, and sends
\* no command to the autopilot.
C36_GetMode ==
    (Handled /\ income_data = CMD_get_mode) =>
        /\ Cardinality(Appends) = 2
        /\ \A k \in Appends : k < Len(events) /\ events[k + 1].kind = "drain"
        /\ \E k \in Appends : \E j \in Appends :
               /\ k < j
               /\ StartsWith(events[k].text, S_mode_report)
               /\ events[j].text = Ack
        /\ \A k \in 1..Len(events) : events[k].kind \notin {"call", "set"}

\* the side effect ev belongs to the row of the verb in the command table
RowAllows(verb, ev) ==
    CASE verb = P_waypoint ->
             /\ ev.kind = "call"
             /\ ev.type \in {"PARAM_SET", "MAV_CMD_DO_SET_MODE", "MISSION_ITEM_INT",
                             "MISSION_SET_CURRENT"}
      [] verb = P_output_rest_time ->
             ev.kind = "set" /\ ev.type = "REST_TIME_DATA_OUT"
      [] verb = P_input_rest_time ->
             ev.kind = "set" /\ ev.type = "REST_TIME_DATA_IN"
      [] verb = P_set_mode ->
             ev.kind = "call" /\ ev.type = "MAV_CMD_DO_SET_MODE"
      [] verb = P_get_mode ->
             ev.kind = "query" /\ ev.type = "HEARTBEAT"
      [] verb = P_arm ->
             /\ ev.kind = "call"
             /\ ev.type = "MAV_CMD_COMPONENT_ARM_DISARM"
             /\ ev.nums = << 1 >>
      [] verb = P_disarm ->
             /\ ev.kind = "call"
             /\ ev.type = "MAV_CMD_COMPONENT_ARM_DISARM"
             /\ ev.nums = << 0 >>
      [] verb = P_set_param ->
             ev.kind = "call" /\ ev.type = "PARAM_SET"
      [] OTHER -> FALSE

\* C37: while the dispatcher handles a command whose verb is a supported
\* verb, every side effect it performs belongs to the row of that verb: no
\* request of another row is made, only "output_rest_time" changes
\* REST_TIME_DATA_OUT, only "input_rest_time" changes REST_TIME_DATA_IN,
\* and only "get_mode" appends something besides the acknowledgment.
C37_Exclusive ==
    [][ (Dispatching /\ Verb(income_data) \in SupportedVerbs) =>
            /\ \A k \in 1..Len(events') :
                   events'[k].kind \in {"call", "query", "set"} =>
                       RowAllows(Verb(income_data), events'[k])
            /\ REST_TIME_DATA_OUT' # REST_TIME_DATA_OUT =>
                   Verb(income_data) = P_output_rest_time
            /\ REST_TIME_DATA_IN' # REST_TIME_DATA_IN =>
                   Verb(income_data) = P_input_rest_time
            /\ \A k \in 1..Len(events') :
                   (events'[k].kind = "append" /\ events'[k].text # Ack) =>
                       Verb(income_data) = P_get_mode
      ]_vars

\* C37 witness: "disarm" has been handled with one side effect, the disarm
\* command.
C37_Witness ==
    /\ Handled
    /\ income_data = CMD_disarm
    /\ Cardinality(SideEffects) = 1
    /\ \A k \in SideEffects : events[k].nums = << 0 >>

\* ------------------------------------------------------------------------
\* The drain's accounting and its iteration
\* ------------------------------------------------------------------------

\* C38 (queue-length accounting): at every point of a drain, and so at its
\* end, unsent_data has as many envelopes less than at the start of the
\* drain as sends of the drain returned a status <= 5; what is left is the
\* front of the list the drain started from, so a drain adds nothing.
C38_LengthAccounting ==
    drain_pc # "idle" =>
        /\ successes <= Len(drainStart)
        /\ Len(unsent_data) = Len(drainStart) - successes
        /\ unsent_data = SubSeq(drainStart, 1, Len(drainStart) - successes)

\* C38 witness: a drain of two envelopes has ended with one failed visit
\* and one successful send, and one envelope is left.
C38_Witness ==
    /\ DrainEnded
    /\ Len(drainStart) = 2
    /\ sawFailure
    /\ successes = 1
    /\ Len(unsent_data) = 1

\* the positions, in the list the drain started from, of the envelopes the
\* drain has visited: the reversed iterator has gone from the last
\* position down to the one after it_index
VisitedPositions == (it_index + 1)..Len(drainStart)

\* C39: although the drain pops from the list it iterates over, it visits
\* every envelope that was in the list at its start exactly once, whatever
\* the statuses: the k-th visit is of the envelope k-th from the end, the
\* list still holds at that moment the envelope that is visited, no
\* position is visited twice, and at the end of the drain every position
\* has been visited.
C39_EachVisitedOnce ==
    drain_pc # "idle" =>
        /\ it_index \in 0..Len(drainStart)
        /\ Len(visits) = Cardinality(VisitedPositions)
        /\ \A position \in VisitedPositions :
               Cardinality({ k \in 1..Len(visits) :
                               /\ k = Len(drainStart) + 1 - position
                               /\ visits[k] = drainStart[position] }) = 1
        /\ drain_pc = "attempt" =>
               /\ data_package = drainStart[it_index + 1]
               /\ data_package = visits[Len(visits)]
        /\ DrainEnded => it_index = 0

\* C39 witness: a drain of two envelopes in which the sends of the newer
\* envelope all failed and the send of the older one succeeded has ended
\* after two visits.
C39_Witness ==
    /\ DrainEnded
    /\ Len(drainStart) = 2
    /\ Len(visits) = 2
    /\ sawFailure
    /\ sawSuccess
    /\ lastOk

\* ------------------------------------------------------------------------
\* The heartbeat of the satellite service
\* ------------------------------------------------------------------------

\* beat_the_heart() has been called in the iteration these events are of
Beaten(evs) == \E k \in 1..Len(evs) : evs[k] = BeatEv

HasRaised(evs) == \E k \in 1..Len(evs) : evs[k] = RaiseEv

====
